---- MODULE Spec2Model ----
(***************************************************************************)
(* A model of github.com/embano1/memlog: the segmented in-memory log       *)
(* (segment.go, memlog.go).  Pure functions of the source are operators    *)
(* that take and return values; methods with a pointer receiver return the *)
(* receiver's new value next to their Go results.                          *)
(***************************************************************************)
EXTENDS Integers, Sequences, FiniteSets, TLC

\* ------------------------------------------------------------------ bounds
\* largest configured start offset (WithStartOffset)
MaxStartOffset == 1
\* largest configured segment size (WithMaxSegmentSize)
MaxSegmentSize == 2
\* largest configured record size in bytes (WithMaxRecordDataSize)
MaxRecordSize == 1
\* number of offsets a log may assign before the model stops writing
MaxWrites == 5
\* latest instant of the injected clock; instant 0 is Go's zero time.Time
MaxTime == 1
\* number of goroutines calling one Log concurrently
NumProcs == 2
\* number of byte slices allocated in one run
MaxBufs == 4
\* largest length of the batch passed to ReadBatch
MaxBatch == 3
\* number of offsets a log may assign next to a slow consumer
MaxSlowWrites == 101
\* number of records a slow consumer receives
MaxSlowRecv == 2
\* the shards of a sharded Log are 2..MaxShards
MaxShards == 3
\* the keys a KeySharder is made with are at most
MaxKeys == 3
\* the successful Writes to a sharded Log are at most
MaxShardedWrites == 3
\* number of streams running side by side on one Log
NumStreams == 2
\* number of offsets a log may assign next to these streams
MaxStreamsWrites == 3
\* number of offsets a log may assign next to streams polling it
MaxPollWrites == 2

\* ------------------------------------------------------------------ values
Nil == "nil"
ErrRecordTooLarge == "record data too large"
ErrFutureOffset == "future offset"
ErrOutOfRange == "offset out of range"
ErrNoData == "no data provided"
errSealed == "segment sealed"
errFull == "segment full"
Canceled == "context canceled"
DeadlineExceeded == "context deadline exceeded"
CtxErrors == {Canceled, DeadlineExceeded}
ErrSlowReader == "slow reader blocking stream channel send"
\* the capacity of the record channel of a stream
streamBuffer == 100

\* byte values of a payload
Bytes == {1, 2}
\* the payloads a caller may pass to Write: empty, valid and oversized ones
Payloads == UNION {[1..n -> Bytes] : n \in 0..(MaxRecordSize + 1)}

\* time.Time{}: the instant for which IsZero() holds
ZeroTime == 0
Times == ZeroTime..MaxTime

\* A context as a call sees it: the first `live` calls of ctx.Err() made
\* during the call return nil, every later one returns `err` (a context is
\* cancelled by another goroutine or by its deadline at any moment, and stays
\* cancelled).
\* Contexts(n): the contexts a call that asks ctx.Err() at most n times can
\* tell apart; live = n is a context that stays live for the whole call.
Contexts(n) == [live : 0..n, err : CtxErrors]
CtxErr(ctx, k) == IF k <= ctx.live THEN Nil ELSE ctx.err

\* ------------------------------------------------------------------ Record
\* Record{}: the zero value returned next to an error
EmptyRecord == [offset |-> 0, created |-> ZeroTime, data |-> <<>>]

deepCopy(r) ==
    IF r.offset = 0 /\ r.created = ZeroTime
    THEN EmptyRecord
    ELSE [offset |-> r.offset, created |-> r.created, data |-> r.data]

\* ------------------------------------------------------------------ segment
\* newSegment allocating one slot too many
newSegment_cap(startOffset, size) ==
    IF startOffset < 0
    THEN [seg |-> <<>>, err |-> "start offset must not be negative"]
    ELSE IF size <= 0
    THEN [seg |-> <<>>, err |-> "size must be greater than 0"]
    ELSE [seg |-> <<[start |-> startOffset, sealed |-> FALSE,
                     data |-> <<>>, cap |-> size + 1]>>,
          err |-> Nil]

newSegment(startOffset, size) ==
    IF startOffset < 0
    THEN [seg |-> <<>>, err |-> "start offset must not be negative"]
    ELSE IF size <= 0
    THEN [seg |-> <<>>, err |-> "size must be greater than 0"]
    ELSE [seg |-> <<[start |-> startOffset, sealed |-> FALSE,
                     data |-> <<>>, cap |-> size]>>,
          err |-> Nil]

\* s.write(ctx, r); cerr is what ctx.Err() returns at the call
segment_write(s, r, cerr) ==
    IF cerr # Nil THEN [seg |-> s, err |-> cerr]
    ELSE IF s.sealed THEN [seg |-> s, err |-> errSealed]
    ELSE IF Len(s.data) = s.cap THEN [seg |-> s, err |-> errFull]
    ELSE [seg |-> [s EXCEPT !.data = Append(@, r)], err |-> Nil]

segment_read(s, off, cerr) ==
    IF cerr # Nil THEN [rec |-> EmptyRecord, err |-> cerr]
    ELSE LET records == Len(s.data)
             index == off - s.start
         IN IF index > records - 1 \/ index < 0
            THEN [rec |-> EmptyRecord, err |-> ErrOutOfRange]
            ELSE [rec |-> s.data[index + 1], err |-> Nil]

\* seal leaving the segment open
seal_open(s) == s

\* s.seal()
seal(s) == [s EXCEPT !.sealed = TRUE]

currentOffset(s) ==
    IF Len(s.data) = 0 THEN -1 ELSE s.start + Len(s.data) - 1

\* ------------------------------------------------------------------ Log
\* A Log value l: [conf, history, active, offset].  A *segment field is a
\* sequence: <<>> is the nil pointer, <<s>> points to s.

\* extend keeping a history segment that exists
extend_keep(l) ==
    LET old == seal(l.active[1])
        ns == newSegment(l.offset, l.conf.segmentSize)
        hist == IF l.history = <<>> THEN <<old>> ELSE l.history
    IN IF ns.err # Nil
       THEN [log |-> [l EXCEPT !.history = hist, !.active = <<old>>],
             err |-> ns.err]
       ELSE [log |-> [l EXCEPT !.history = hist, !.active = ns.seg],
             err |-> Nil]

\* extend starting the new active segment at the configured start offset
extend_restart(l) ==
    LET old == seal(l.active[1])
        ns == newSegment(l.conf.startOffset, l.conf.segmentSize)
    IN IF ns.err # Nil
       THEN [log |-> [l EXCEPT !.history = <<old>>, !.active = <<old>>],
             err |-> ns.err]
       ELSE [log |-> [l EXCEPT !.history = <<old>>, !.active = ns.seg],
             err |-> Nil]

\* extend that leaves the sealed segment the active one
extend_sealed(l) ==
    LET old == seal(l.active[1])
    IN [log |-> [l EXCEPT !.history = <<old>>, !.active = <<old>>],
        err |-> Nil]

\* l.extend(): seals the active segment and makes it the history
extend(l) ==
    LET old == seal(l.active[1])
        ns == newSegment(l.offset, l.conf.segmentSize)
    IN IF ns.err # Nil
       THEN [log |-> [l EXCEPT !.history = <<old>>, !.active = <<old>>],
             err |-> ns.err]
       ELSE [log |-> [l EXCEPT !.history = <<old>>, !.active = ns.seg],
             err |-> Nil]

\* the loop `for err != nil` of l.write; k numbers the next call of ctx.Err(),
\* extends counts the calls of l.extend() made so far
RECURSIVE writeLoop(_, _, _, _, _, _)
writeLoop(l, r, err, ctx, k, extends) ==
    IF err = Nil
    THEN [log |-> l, offset |-> r.offset, err |-> Nil, panic |-> FALSE,
          extends |-> extends]
    ELSE IF err \in CtxErrors
    THEN [log |-> l, offset |-> -1, err |-> err, panic |-> FALSE,
          extends |-> extends]
    ELSE IF err = errFull
    THEN LET e == extend(l)
         IN IF e.err # Nil
            THEN [log |-> e.log, offset |-> -1, err |-> e.err,
                  panic |-> TRUE, extends |-> extends + 1]
            ELSE LET w == segment_write(e.log.active[1], r, CtxErr(ctx, k))
                 IN writeLoop([e.log EXCEPT !.active = <<w.seg>>], r, w.err,
                              ctx, k + 1, extends + 1)
    ELSE [log |-> l, offset |-> -1, err |-> err, panic |-> TRUE,
          extends |-> extends]

\* l.write asking for the context only after it has looked at the data
write_append_late(l, data, ctx, t) ==
    IF Len(data) > l.conf.maxRecordSize
    THEN [log |-> l, offset |-> -1, err |-> ErrRecordTooLarge,
          panic |-> FALSE, extends |-> 0]
    ELSE IF Len(data) = 0
    THEN [log |-> l, offset |-> -1, err |-> ErrNoData, panic |-> FALSE,
          extends |-> 0]
    ELSE IF CtxErr(ctx, 1) # Nil
    THEN [log |-> l, offset |-> -1, err |-> CtxErr(ctx, 1), panic |-> FALSE,
          extends |-> 0]
    ELSE LET r == [offset |-> l.offset, created |-> t, data |-> data]
             w == segment_write(l.active[1], r, CtxErr(ctx, 2))
         IN writeLoop([l EXCEPT !.active = <<w.seg>>], r, w.err, ctx, 3, 0)

\* l.write refusing data of exactly maxRecordSize bytes
write_append_ge(l, data, ctx, t) ==
    IF CtxErr(ctx, 1) # Nil
    THEN [log |-> l, offset |-> -1, err |-> CtxErr(ctx, 1), panic |-> FALSE,
          extends |-> 0]
    ELSE IF Len(data) >= l.conf.maxRecordSize
    THEN [log |-> l, offset |-> -1, err |-> ErrRecordTooLarge,
          panic |-> FALSE, extends |-> 0]
    ELSE IF Len(data) = 0
    THEN [log |-> l, offset |-> -1, err |-> ErrNoData, panic |-> FALSE,
          extends |-> 0]
    ELSE LET r == [offset |-> l.offset, created |-> t, data |-> data]
             w == segment_write(l.active[1], r, CtxErr(ctx, 2))
         IN writeLoop([l EXCEPT !.active = <<w.seg>>], r, w.err, ctx, 3, 0)

\* l.write(ctx, data) up to the end of its loop, with the clock showing `t`:
\* the checks, the record and its append to the active segment
write_append(l, data, ctx, t) ==
    IF CtxErr(ctx, 1) # Nil
    THEN [log |-> l, offset |-> -1, err |-> CtxErr(ctx, 1), panic |-> FALSE,
          extends |-> 0]
    ELSE IF Len(data) > l.conf.maxRecordSize
    THEN [log |-> l, offset |-> -1, err |-> ErrRecordTooLarge,
          panic |-> FALSE, extends |-> 0]
    ELSE IF Len(data) = 0
    THEN [log |-> l, offset |-> -1, err |-> ErrNoData, panic |-> FALSE,
          extends |-> 0]
    ELSE LET r == [offset |-> l.offset, created |-> t, data |-> data]
             w == segment_write(l.active[1], r, CtxErr(ctx, 2))
         IN writeLoop([l EXCEPT !.active = <<w.seg>>], r, w.err, ctx, 3, 0)

\* l.offset++ at the end of l.write
write_commit(l) == [l EXCEPT !.offset = @ + 1]

\* l.write incrementing the offset counter whether or not the append succeeded
Log_write_eager(l, data, ctx, t) ==
    LET a == write_append(l, data, ctx, t)
    IN [a EXCEPT !.log = write_commit(a.log)]

\* l.write(ctx, data): the offset counter moves only after a successful append
Log_write(l, data, ctx, t) ==
    LET a == write_append(l, data, ctx, t)
    IN IF a.err = Nil THEN [a EXCEPT !.log = write_commit(a.log)] ELSE a

\* getSegment missing the first offset of the history segment
getSegment_min(l, off) ==
    IF off >= l.active[1].start
    THEN IF off <= currentOffset(l.active[1])
         THEN [seg |-> l.active, err |-> Nil]
         ELSE [seg |-> <<>>, err |-> ErrFutureOffset]
    ELSE IF l.history # <<>>
            /\ l.history[1].start < off
            /\ off <= l.history[1].start + l.conf.segmentSize - 1
    THEN [seg |-> l.history, err |-> Nil]
    ELSE [seg |-> <<>>, err |-> ErrOutOfRange]

\* getSegment missing the last offset of the history segment
getSegment_short(l, off) ==
    IF off >= l.active[1].start
    THEN IF off <= currentOffset(l.active[1])
         THEN [seg |-> l.active, err |-> Nil]
         ELSE [seg |-> <<>>, err |-> ErrFutureOffset]
    ELSE IF l.history # <<>>
            /\ l.history[1].start <= off
            /\ off < l.history[1].start + l.conf.segmentSize - 1
    THEN [seg |-> l.history, err |-> Nil]
    ELSE [seg |-> <<>>, err |-> ErrOutOfRange]

getSegment(l, off) ==
    IF off >= l.active[1].start
    THEN IF off <= currentOffset(l.active[1])
         THEN [seg |-> l.active, err |-> Nil]
         ELSE [seg |-> <<>>, err |-> ErrFutureOffset]
    ELSE IF l.history # <<>>
            /\ l.history[1].start <= off
            /\ off <= l.history[1].start + l.conf.segmentSize - 1
    THEN [seg |-> l.history, err |-> Nil]
    ELSE [seg |-> <<>>, err |-> ErrOutOfRange]

\* l.read(ctx, offset)
Log_read(l, off, ctx) ==
    IF CtxErr(ctx, 1) # Nil THEN [rec |-> EmptyRecord, err |-> CtxErr(ctx, 1)]
    ELSE IF off >= l.offset THEN [rec |-> EmptyRecord, err |-> ErrFutureOffset]
    ELSE IF off < l.conf.startOffset
    THEN [rec |-> EmptyRecord, err |-> ErrOutOfRange]
    ELSE LET g == getSegment(l, off)
         IN IF g.err # Nil THEN [rec |-> EmptyRecord, err |-> g.err]
            ELSE LET s == segment_read(g.seg[1], off, CtxErr(ctx, 2))
                 IN IF s.err # Nil THEN [rec |-> EmptyRecord, err |-> s.err]
                    ELSE [rec |-> deepCopy(s.rec), err |-> Nil]

\* the context as a call sees it after n calls of ctx.Err()
CtxAfter(ctx, n) == [ctx EXCEPT !.live = IF @ > n THEN @ - n ELSE 0]

\* the loop of l.ReadBatch reading the same offset again and again
RECURSIVE readBatchLoop_stay(_, _, _, _, _)
readBatchLoop_stay(l, off, batch, ctx, i) ==
    IF i >= Len(batch)
    THEN [n |-> Len(batch), batch |-> batch, err |-> Nil]
    ELSE LET res == Log_read(l, off, ctx)
         IN IF res.err = ErrOutOfRange
            THEN [n |-> 0, batch |-> batch, err |-> res.err]
            ELSE IF res.err \in CtxErrors
            THEN [n |-> i, batch |-> batch, err |-> res.err]
            ELSE IF res.err = ErrFutureOffset
            THEN [n |-> i, batch |-> batch, err |-> ErrFutureOffset]
            ELSE readBatchLoop_stay(l, off, [batch EXCEPT ![i + 1] = res.rec],
                                    CtxAfter(ctx, 2), i + 1)

\* the loop of l.ReadBatch returning 0 when the context trips
RECURSIVE readBatchLoop_drop(_, _, _, _, _)
readBatchLoop_drop(l, off, batch, ctx, i) ==
    IF i >= Len(batch)
    THEN [n |-> Len(batch), batch |-> batch, err |-> Nil]
    ELSE LET res == Log_read(l, off, ctx)
         IN IF res.err = ErrOutOfRange \/ res.err \in CtxErrors
            THEN [n |-> 0, batch |-> batch, err |-> res.err]
            ELSE IF res.err = ErrFutureOffset
            THEN [n |-> i, batch |-> batch, err |-> ErrFutureOffset]
            ELSE readBatchLoop_drop(l, off + 1,
                                    [batch EXCEPT ![i + 1] = res.rec],
                                    CtxAfter(ctx, 2), i + 1)

\* the loop of l.ReadBatch calling l.read before it tests i
RECURSIVE readBatchLoop_first(_, _, _, _, _)
readBatchLoop_first(l, off, batch, ctx, i) ==
    LET res == Log_read(l, off, ctx)
    IN IF res.err = ErrOutOfRange
       THEN [n |-> 0, batch |-> batch, err |-> res.err]
       ELSE IF res.err \in CtxErrors
       THEN [n |-> i, batch |-> batch, err |-> res.err]
       ELSE IF res.err = ErrFutureOffset
       THEN [n |-> i, batch |-> batch, err |-> ErrFutureOffset]
       ELSE IF i >= Len(batch)
       THEN [n |-> Len(batch), batch |-> batch, err |-> Nil]
       ELSE readBatchLoop_first(l, off + 1, [batch EXCEPT ![i + 1] = res.rec],
                                CtxAfter(ctx, 2), i + 1)

\* the loop of l.ReadBatch from index i on; a successful l.read has asked
\* ctx.Err() twice, in l.read and in segment.read
RECURSIVE readBatchLoop(_, _, _, _, _)
readBatchLoop(l, off, batch, ctx, i) ==
    IF i >= Len(batch)
    THEN [n |-> Len(batch), batch |-> batch, err |-> Nil]
    ELSE LET res == Log_read(l, off, ctx)
         IN IF res.err = ErrOutOfRange
            THEN [n |-> 0, batch |-> batch, err |-> res.err]
            ELSE IF res.err \in CtxErrors
            THEN [n |-> i, batch |-> batch, err |-> res.err]
            ELSE IF res.err = ErrFutureOffset
            THEN [n |-> i, batch |-> batch, err |-> ErrFutureOffset]
            ELSE readBatchLoop(l, off + 1, [batch EXCEPT ![i + 1] = res.rec],
                               CtxAfter(ctx, 2), i + 1)

\* l.ReadBatch(ctx, offset, batch)
Log_ReadBatch(l, off, batch, ctx) == readBatchLoop(l, off, batch, ctx, 0)

\* no call of ReadBatch is under way
NoBatch == [pc |-> "idle", start |-> -1, off |-> -1, i |-> 0, batch |-> <<>>,
            n |-> 0, err |-> Nil, snap |-> <<>>]

\* one turn of the loop of l.ReadBatch, for a call b that holds the shared
\* lock, on the Log l as it is now: the test of i, l.read and what follows it
readBatchStep(l, b, ctx) ==
    IF b.i >= Len(b.batch)
    THEN [b EXCEPT !.pc = "unlock", !.n = Len(b.batch), !.err = Nil]
    ELSE LET res == Log_read(l, b.off, ctx)
         IN IF res.err = ErrOutOfRange
            THEN [b EXCEPT !.pc = "unlock", !.n = 0, !.err = res.err]
            ELSE IF res.err \in CtxErrors \cup {ErrFutureOffset}
            THEN [b EXCEPT !.pc = "unlock", !.n = b.i, !.err = res.err]
            ELSE [b EXCEPT !.batch[b.i + 1] = res.rec, !.off = @ + 1,
                           !.i = @ + 1]

\* offsetRange taking earliest from the active segment
offsetRange_active(l) ==
    IF l.history = <<>>
    THEN IF currentOffset(l.active[1]) = -1
         THEN [earliest |-> -1, latest |-> -1]
         ELSE [earliest |-> l.conf.startOffset,
               latest |-> currentOffset(l.active[1])]
    ELSE [earliest |-> l.active[1].start,
          latest |-> currentOffset(l.active[1])]

offsetRange(l) ==
    IF l.history = <<>>
    THEN IF currentOffset(l.active[1]) = -1
         THEN [earliest |-> -1, latest |-> -1]
         ELSE [earliest |-> l.conf.startOffset,
               latest |-> currentOffset(l.active[1])]
    ELSE [earliest |-> l.history[1].start,
          latest |-> currentOffset(l.active[1])]

\* ------------------------------------------------------------- byte slices
\* A []byte is a sequence: <<>> is the nil slice, <<a>> a slice whose backing
\* array lives at address a of the heap h.

\* a "copy" that returns the slice it was given
copyBytes_share(h, a) == [heap |-> h, data |-> a]
\* append([]byte(nil), src...): a new backing array with the bytes of src
copyBytes(h, a) == [heap |-> Append(h, h[a[1]]), data |-> <<Len(h) + 1>>]

\* l.write(ctx, data) and l.offset++ with the slices as addresses: the record
\* appended holds dcopy, the copy of the caller's slice a
Log_writeRef(l, h, a, ctx, t) ==
    IF \/ CtxErr(ctx, 1) # Nil
       \/ Len(h[a[1]]) > l.conf.maxRecordSize
       \/ Len(h[a[1]]) = 0
    THEN [heap |-> h, res |-> Log_write(l, h[a[1]], ctx, t)]
    ELSE LET dcopy == copyBytes(h, a)
             r == [offset |-> l.offset, created |-> t, data |-> dcopy.data]
             w == segment_write(l.active[1], r, CtxErr(ctx, 2))
             res == writeLoop([l EXCEPT !.active = <<w.seg>>], r, w.err,
                              ctx, 3, 0)
         IN [heap |-> dcopy.heap,
             res |-> IF res.err = Nil
                     THEN [res EXCEPT !.log = write_commit(res.log)]
                     ELSE res]

\* l.read(ctx, offset) with the slices as addresses: deepCopy returns Record{}
\* or a record whose Data is dCopy, the copy of the stored slice
Log_readRef(l, h, off, ctx) ==
    LET res == Log_read(l, off, ctx)
    IN IF res.err # Nil \/ res.rec = EmptyRecord
       THEN [heap |-> h, rec |-> res.rec, err |-> res.err]
       ELSE LET dCopy == copyBytes(h, res.rec.data)
            IN [heap |-> dCopy.heap,
                rec |-> [res.rec EXCEPT !.data = dCopy.data],
                err |-> Nil]

\* ------------------------------------------------------------------ Stream
\* sendOne skipping to the earliest offset when its offset is out of range
sendOne_skip(l, ch, off, ctx) ==
    IF Len(ch) = streamBuffer
    THEN [ch |-> ch, offset |-> off, err |-> ErrSlowReader]
    ELSE LET rng == offsetRange(l)
             res == Log_read(l, off, ctx)
         IN IF res.err = ErrFutureOffset
            THEN [ch |-> ch, offset |-> off, err |-> Nil]
            ELSE IF res.err = ErrOutOfRange
            THEN [ch |-> ch, offset |-> rng.earliest, err |-> Nil]
            ELSE IF res.err # Nil
            THEN [ch |-> ch, offset |-> off, err |-> res.err]
            ELSE [ch |-> Append(ch, [earliest |-> rng.earliest,
                                     latest |-> rng.latest,
                                     rec |-> res.rec]),
                  offset |-> res.rec.offset + 1,
                  err |-> Nil]

\* sendOne leaving its offset where it is after a send
sendOne_stay(l, ch, off, ctx) ==
    IF Len(ch) = streamBuffer
    THEN [ch |-> ch, offset |-> off, err |-> ErrSlowReader]
    ELSE LET rng == offsetRange(l)
             res == Log_read(l, off, ctx)
         IN IF res.err = ErrFutureOffset
            THEN [ch |-> ch, offset |-> off, err |-> Nil]
            ELSE IF res.err # Nil
            THEN [ch |-> ch, offset |-> off, err |-> res.err]
            ELSE [ch |-> Append(ch, [earliest |-> rng.earliest,
                                     latest |-> rng.latest,
                                     rec |-> res.rec]),
                  offset |-> off,
                  err |-> Nil]

\* sendOne giving up at an offset not yet written
sendOne_nowait(l, ch, off, ctx) ==
    IF Len(ch) = streamBuffer
    THEN [ch |-> ch, offset |-> off, err |-> ErrSlowReader]
    ELSE LET rng == offsetRange(l)
             res == Log_read(l, off, ctx)
         IN IF res.err # Nil
            THEN [ch |-> ch, offset |-> off, err |-> res.err]
            ELSE [ch |-> Append(ch, [earliest |-> rng.earliest,
                                     latest |-> rng.latest,
                                     rec |-> res.rec]),
                  offset |-> res.rec.offset + 1,
                  err |-> Nil]

\* sendOne taking the record channel for full one record too late
sendOne_deep(l, ch, off, ctx) ==
    IF Len(ch) = streamBuffer + 1
    THEN [ch |-> ch, offset |-> off, err |-> ErrSlowReader]
    ELSE LET rng == offsetRange(l)
             res == Log_read(l, off, ctx)
         IN IF res.err = ErrFutureOffset
            THEN [ch |-> ch, offset |-> off, err |-> Nil]
            ELSE IF res.err # Nil
            THEN [ch |-> ch, offset |-> off, err |-> res.err]
            ELSE [ch |-> Append(ch, [earliest |-> rng.earliest,
                                     latest |-> rng.latest,
                                     rec |-> res.rec]),
                  offset |-> res.rec.offset + 1,
                  err |-> Nil]

\* sendOne that backs off and polls again after every error of the read
sendOne_retry(l, ch, off, ctx) ==
    IF Len(ch) = streamBuffer
    THEN [ch |-> ch, offset |-> off, err |-> ErrSlowReader]
    ELSE LET rng == offsetRange(l)
             res == Log_read(l, off, ctx)
         IN IF res.err # Nil
            THEN [ch |-> ch, offset |-> off, err |-> Nil]
            ELSE [ch |-> Append(ch, [earliest |-> rng.earliest,
                                     latest |-> rng.latest,
                                     rec |-> res.rec]),
                  offset |-> res.rec.offset + 1,
                  err |-> Nil]

\* the closure sendOne of Stream, with the record channel holding ch and the
\* variable offset holding off: the channel and the offset after it, and the
\* error it returns
sendOne(l, ch, off, ctx) ==
    IF Len(ch) = streamBuffer
    THEN [ch |-> ch, offset |-> off, err |-> ErrSlowReader]
    ELSE LET rng == offsetRange(l)
             res == Log_read(l, off, ctx)
         IN IF res.err = ErrFutureOffset
            THEN [ch |-> ch, offset |-> off, err |-> Nil]
            ELSE IF res.err # Nil
            THEN [ch |-> ch, offset |-> off, err |-> res.err]
            ELSE [ch |-> Append(ch, [earliest |-> rng.earliest,
                                     latest |-> rng.latest,
                                     rec |-> res.rec]),
                  offset |-> res.rec.offset + 1,
                  err |-> Nil]

\* a stream before l.Stream(ctx, start) has started its goroutine
NoStream == [pc |-> "none", ctx |-> Nil, start |-> -1, offset |-> -1,
             err |-> Nil, ch |-> <<>>, recvd |-> <<>>, cerr |-> Nil]

\* the streams running side by side on one Log
StreamIds == 1..NumStreams

\* ------------------------------------------------------- the iterator
\* the iterator before log.stream(ctx, startOffset) has made it
NoIter == [state |-> "none", position |-> -1, err |-> Nil, ctx |-> Nil,
           last |-> "none"]

\* as iterNext, but a stopped iterator performs the read again
iterNext_resume(l, it) ==
    IF it.ctx # Nil
    THEN [it EXCEPT !.state = "stopped", !.err = it.ctx, !.last = "stop"]
    ELSE LET res == Log_read(l, it.position, [live |-> 3, err |-> Canceled])
         IN IF res.err = Nil
            THEN [it EXCEPT !.state = "running", !.err = Nil,
                            !.position = @ + 1, !.last = "record"]
            ELSE IF res.err = ErrFutureOffset
            THEN [it EXCEPT !.last = "retry"]
            ELSE [it EXCEPT !.state = "stopped", !.err = res.err,
                            !.last = "stop"]

\* one attempt of next(): a stopped iterator returns (zero, false) at once;
\* else cancellation is checked, then the read is performed: a record is
\* returned and the position advances, or "future offset" makes next() back
\* off and retry, or any other error is recorded and stops the iterator.
\* last tells what the attempt did: "record" for (record, true), "stop" for
\* (zero, false) on stopping, "stopped" for (zero, false) without a read,
\* "retry" for the backoff
iterNext(l, it) ==
    IF it.state = "stopped"
    THEN [it EXCEPT !.last = "stopped"]
    ELSE IF it.ctx # Nil
    THEN [it EXCEPT !.state = "stopped", !.err = it.ctx, !.last = "stop"]
    ELSE LET res == Log_read(l, it.position, [live |-> 3, err |-> Canceled])
         IN IF res.err = Nil
            THEN [it EXCEPT !.position = @ + 1, !.last = "record"]
            ELSE IF res.err = ErrFutureOffset
            THEN [it EXCEPT !.last = "retry"]
            ELSE [it EXCEPT !.state = "stopped", !.err = res.err,
                            !.last = "stop"]

\* err(): the reason the iterator stopped, or none
iterErr(it) == it.err

\* ------------------------------------------------------- the sharders
\* a key []byte: nil, or its bytes
NilKey == [nil |-> TRUE, bytes |-> <<>>]
Key(b) == [nil |-> FALSE, bytes |-> b]

\* a uint32 is held in two halves of 16 bits, hi * 2^16 + lo, so that no
\* product leaves the integers of the checker.  fnv.New32a(): the offset
\* basis 2166136261 = 0x811c9dc5 and the prime 16777619 = 0x01000193
offset32 == [hi |-> 33052, lo |-> 40389]
prime32 == [hi |-> 256, lo |-> 403]

\* the exclusive or of the n low bits of a and b
RECURSIVE xorBits(_, _, _)
xorBits(a, b, n) ==
    IF n = 0 THEN 0
    ELSE ((a + b) % 2) + 2 * xorBits(a \div 2, b \div 2, n - 1)

\* one byte of hash32.Write: hash ^= b; hash *= prime32, modulo 2^32
fnvWrite(h, b) ==
    LET lo == (h.lo - (h.lo % 256)) + xorBits(h.lo % 256, b, 8)
        p  == lo * prime32.lo
    IN [hi |-> (h.hi * prime32.lo + lo * prime32.hi + (p \div 65536)) % 65536,
        lo |-> p % 65536]

\* d.hash(key): Reset, Write(key), Sum32
RECURSIVE fnvSum(_, _)
fnvSum(h, key) ==
    IF key = <<>> THEN h ELSE fnvSum(fnvWrite(h, Head(key)), Tail(key))
defaultSharder_hash(key) == fnvSum(offset32, key)

\* int32(h) of a uint32 h
int32(h) ==
    IF h.hi >= 32768 THEN (h.hi - 65536) * 65536 + h.lo
    ELSE h.hi * 65536 + h.lo

\* a % b of Go for int32 operands with b > 0: the remainder has the sign of a
rem32(a, b) == IF a >= 0 THEN a % b ELSE -((-(a + b)) % b)

\* shard := int32(h) % int32(shards); if shard < 0 { shard = -shard }, for a
\* hash whose int32 is h
defaultSharder_index(h, shards) ==
    LET shard == rem32(h, shards)
    IN IF shard < 0 THEN -shard ELSE shard

\* defaultSharder.Shard(key, shards)
defaultSharder_Shard(key, shards) ==
    [shard |-> defaultSharder_index(int32(defaultSharder_hash(key)), shards),
     err |-> Nil]

errKeys == "number of keys greater than available shards"
errShardNotFound == "shard not found"
errInvalidKey == "invalid key"

\* NewKeySharder(keys): the map holds, for each key, the last index it has
\* in keys
NewKeySharder(keys) ==
    [k \in {keys[i] : i \in 1..Len(keys)} |->
        (CHOOSE i \in 1..Len(keys) :
            keys[i] = k /\ \A j \in 1..Len(keys) : keys[j] = k => j <= i) - 1]

\* as KeySharder_Shard, but without the test of the number of keys
KeySharder_Shard_any(ks, key, shards) ==
    IF key \in DOMAIN ks
    THEN [shard |-> ks[key], err |-> Nil]
    ELSE [shard |-> 0, err |-> errShardNotFound]

\* KeySharder.Shard(key, shards) with k.shards = ks
KeySharder_Shard(ks, key, shards) ==
    IF Cardinality(DOMAIN ks) > shards
    THEN [shard |-> 0, err |-> errKeys]
    ELSE IF key \in DOMAIN ks
    THEN [shard |-> ks[key], err |-> Nil]
    ELSE [shard |-> 0, err |-> errShardNotFound]

\* the sharders: newDefaultSharder() and the KeySharders
defaultSharder == [kind |-> "hash", shards |-> <<>>]
KeySharder(keys) == [kind |-> "key", shards |-> NewKeySharder(keys)]

\* l.sharder.Shard(key, shards)
Sharder_Shard(sh, key, shards) ==
    IF sh.kind = "hash"
    THEN defaultSharder_Shard(key, shards)
    ELSE KeySharder_Shard(sh.shards, key, shards)

\* ----------------------------------------------------- the sharded Log
\* memlog.New with the configuration c
memlog_New(c) ==
    [conf |-> c, history |-> <<>>,
     active |-> newSegment(c.startOffset, c.segmentSize).seg,
     offset |-> c.startOffset]

\* sharded.New(ctx, WithNumShards(n), WithSharder(sh), ...): n Logs made with
\* the same options
sharded_New(c, n, sh) ==
    [sharder |-> sh, n |-> n, shards |-> [i \in 1..n |-> memlog_New(c)]]

\* the sharded Log before sharded.New has made it
NoSharded == [sharder |-> [kind |-> "none", shards |-> <<>>], n |-> 0,
              shards |-> <<>>]

\* as sharded_Write, but writing to the shard after the one of the key
sharded_Write_next(sl, key, data, ctx, t) ==
    IF key.nil
    THEN [log |-> sl, offset |-> -1, err |-> errInvalidKey, wrap |-> "",
          panic |-> FALSE]
    ELSE LET s == Sharder_Shard(sl.sharder, key.bytes, sl.n)
         IN IF s.err # Nil
            THEN [log |-> sl, offset |-> -1, err |-> s.err,
                  wrap |-> "get shard", panic |-> FALSE]
            ELSE IF s.shard >= Len(sl.shards)
            THEN [log |-> sl, offset |-> -1, err |-> Nil, wrap |-> "",
                  panic |-> TRUE]
            ELSE LET i == ((s.shard + 1) % Len(sl.shards)) + 1
                     res == Log_write(sl.shards[i], data, ctx, t)
                 IN [log |-> [sl EXCEPT !.shards[i] = res.log],
                     offset |-> IF res.err # Nil THEN -1 ELSE res.offset,
                     err |-> res.err,
                     wrap |-> IF res.err # Nil THEN "write to shard" ELSE "",
                     panic |-> res.panic]

\* (l *Log) Write(ctx, key, data) of the sharded Log sl at the instant t: the
\* Log after it, the offset and the error returned (err is the error that
\* errors.Is finds, wrap the text put in front of it), and whether the call
\* panics: l.shards[shard] with an index out of range does
sharded_Write(sl, key, data, ctx, t) ==
    IF key.nil
    THEN [log |-> sl, offset |-> -1, err |-> errInvalidKey, wrap |-> "",
          panic |-> FALSE]
    ELSE LET s == Sharder_Shard(sl.sharder, key.bytes, sl.n)
         IN IF s.err # Nil
            THEN [log |-> sl, offset |-> -1, err |-> s.err,
                  wrap |-> "get shard", panic |-> FALSE]
            ELSE IF s.shard >= Len(sl.shards)
            THEN [log |-> sl, offset |-> -1, err |-> Nil, wrap |-> "",
                  panic |-> TRUE]
            ELSE LET i == s.shard + 1
                     res == Log_write(sl.shards[i], data, ctx, t)
                 IN [log |-> [sl EXCEPT !.shards[i] = res.log],
                     offset |-> IF res.err # Nil THEN -1 ELSE res.offset,
                     err |-> res.err,
                     wrap |-> IF res.err # Nil THEN "write to shard" ELSE "",
                     panic |-> res.panic]

\* (l *Log) Read(ctx, key, offset) of the sharded Log sl
sharded_Read(sl, key, off, ctx) ==
    IF key.nil
    THEN [rec |-> EmptyRecord, err |-> errInvalidKey, wrap |-> "",
          panic |-> FALSE]
    ELSE LET s == Sharder_Shard(sl.sharder, key.bytes, sl.n)
         IN IF s.err # Nil
            THEN [rec |-> EmptyRecord, err |-> s.err, wrap |-> "get shard",
                  panic |-> FALSE]
            ELSE IF s.shard >= Len(sl.shards)
            THEN [rec |-> EmptyRecord, err |-> Nil, wrap |-> "",
                  panic |-> TRUE]
            ELSE LET res == Log_read(sl.shards[s.shard + 1], off, ctx)
                 IN [rec |-> IF res.err # Nil THEN EmptyRecord ELSE res.rec,
                     err |-> res.err,
                     wrap |-> IF res.err # Nil THEN "read from shard" ELSE "",
                     panic |-> FALSE]

\* ------------------------------------------------------------------ state
VARIABLES
    conf,       \* Log.conf: startOffset, segmentSize, maxRecordSize
    history,    \* Log.history
    active,     \* Log.active
    offset,     \* Log.offset: the offset of the next write
    mu,         \* Log.mu: the goroutine holding the write lock, the readers
    now,        \* the instant the injected clock shows
    panicked,   \* the process has aborted in a panic
    pc,         \* where each calling goroutine is in its call
    frame,      \* the arguments and the result of each goroutine's call
    writes,     \* history: the successful writes, <<offset, data>>, in order
    failed,     \* history: some Write has returned an error
    rotations,  \* history: the number of calls of extend()
    overlap,    \* history: a Write was called while another was under way
    heap,       \* the backing arrays of the byte slices, by address
    held,       \* the addresses of the slices the callers hold: the ones they
                \* made (own) and the Data of the records Read returned (got)
    sctx,       \* Stream: what ctx.Err() returns for the stream's context
    spc,        \* Stream: where the goroutine of the stream is
    sstart,     \* Stream: the start offset passed to Stream
    soffset,    \* Stream: the goroutine's variable offset
    serr,       \* Stream: the error the goroutine sends on errCh
    streamCh,   \* Stream: the records buffered in streamCh
    recvd,      \* consumer: the offsets of the records received from streamCh
    cerr,       \* consumer: the error received from errCh
    cancelAt,   \* consumer: the number of records it had received when it
                \* cancelled the context in its receive loop, -1 otherwise
    waited,     \* history: the stream has polled an offset not yet written
    iter,       \* the pull-style iterator: its state, its position, its stop
                \* reason, the caller's scope and what Next returned last
    slog,       \* the sharded Log: its sharder, conf.shards and its shards
    shist,      \* history: the successful Writes to the sharded Log, and the
                \* error of the Write that failed last
    rb,         \* a call of ReadBatch under way: where it is, its offset, its
                \* index i, its batch, what it returns, and the Log as it was
                \* when the call took the shared lock
    streams     \* the streams running side by side: for each one its context,
                \* where its goroutine is, its start offset, its variable
                \* offset, its error, its streamCh, and what its consumer
                \* has received from streamCh and from errCh

\* the memory of the byte slices
memvars == <<heap, held>>

\* the stream and its consumer
streamvars == <<sctx, spc, sstart, soffset, serr, streamCh, recvd, cerr,
                cancelAt, waited>>

\* the pull-style iterator, the sharded Log, the call of ReadBatch and the
\* streams running side by side
sidevars == <<iter, slog, shist, rb, streams>>

vars == <<conf, history, active, offset, mu, now, panicked, pc, frame,
          writes, failed, rotations, overlap, memvars, streamvars, sidevars>>

\* the Log as a value
L == [conf |-> conf, history |-> history, active |-> active, offset |-> offset]

NoCall == [op |-> "none", offset |-> -1, err |-> Nil]

\* the offsets a caller may pass to Read
ReadOffsets == -1..(MaxStartOffset + MaxWrites)

\* the goroutines calling the Log concurrently
Procs == 1..NumProcs
NoFrame == [data |-> <<>>, res |-> NoCall]

\* New(ctx, WithStartOffset(..), WithMaxSegmentSize(..),
\* WithMaxRecordDataSize(..), WithClock(..)) for every accepted configuration
New(c) ==
    /\ conf = c
    /\ history = <<>>
    /\ active = newSegment(c.startOffset, c.segmentSize).seg
    /\ offset = c.startOffset
    /\ mu = [w |-> 0, r |-> {}]

Init ==
    /\ \E c \in [startOffset : 0..MaxStartOffset,
                 segmentSize : 1..MaxSegmentSize,
                 maxRecordSize : 1..MaxRecordSize] : New(c)
    /\ now \in Times
    /\ panicked = FALSE
    /\ pc = [p \in Procs |-> "idle"]
    /\ frame = [p \in Procs |-> NoFrame]
    /\ writes = <<>>
    /\ failed = FALSE
    /\ rotations = 0
    /\ overlap = FALSE
    /\ heap = <<>>
    /\ held = [own |-> {}, got |-> {}]
    /\ sctx = Nil
    /\ spc = "none"
    /\ sstart = -1
    /\ soffset = -1
    /\ serr = Nil
    /\ streamCh = <<>>
    /\ recvd = <<>>
    /\ cerr = Nil
    /\ cancelAt = -1
    /\ waited = FALSE
    /\ iter = NoIter
    /\ slog = NoSharded
    /\ shist = [writes |-> <<>>, fail |-> Nil]
    /\ rb = NoBatch
    /\ streams = [i \in StreamIds |-> NoStream]

\* ------------------------------------------- calls, one after the other
\* l.Write(ctx, data): l.write under the exclusive lock
Write(data, ctx) ==
    /\ ~panicked
    /\ offset - conf.startOffset < MaxWrites
    /\ \E res \in {Log_write(L, data, ctx, now)} :
          /\ history' = res.log.history
          /\ active' = res.log.active
          /\ offset' = res.log.offset
          /\ panicked' = res.panic
          /\ writes' = IF res.err = Nil
                       THEN Append(writes, <<res.offset, data>>)
                       ELSE writes
          /\ failed' = (failed \/ res.err # Nil)
          /\ rotations' = rotations + res.extends
    /\ UNCHANGED memvars
    /\ UNCHANGED streamvars
    /\ UNCHANGED sidevars
    /\ UNCHANGED <<conf, mu, now, pc, frame, overlap>>

\* l.Read(ctx, offset): l.read under the shared lock.  The call returns
\* Log_read(L, off, ctx); neither l.read nor what it calls assigns to the Log.
Read(off, ctx) ==
    /\ ~panicked
    /\ UNCHANGED vars

\* a record no Log holds, to tell the elements of a batch ReadBatch has not
\* assigned
StaleRecord == [offset |-> -1, created |-> ZeroTime, data |-> <<>>]
\* the batches a caller may pass to ReadBatch
Batches == {[k \in 1..n |-> StaleRecord] : n \in 0..MaxBatch}

\* l.ReadBatch(ctx, offset, batch): the loop of l.read under the shared lock.
\* The call returns Log_ReadBatch(L, off, batch, ctx) and assigns to the
\* caller's batch only.
ReadBatch(off, batch, ctx) ==
    /\ ~panicked
    /\ UNCHANGED vars

\* l.Range(ctx): l.offsetRange under the shared lock.  The call returns
\* offsetRange(L) and assigns nothing.
Range ==
    /\ ~panicked
    /\ UNCHANGED vars

\* the clock moves on
Tick ==
    /\ now < MaxTime
    /\ now' = now + 1
    /\ UNCHANGED memvars
    /\ UNCHANGED streamvars
    /\ UNCHANGED sidevars
    /\ UNCHANGED <<conf, history, active, offset, mu, panicked, pc, frame,
                   writes, failed, rotations, overlap>>

Next ==
    \/ \E data \in Payloads, ctx \in Contexts(3) : Write(data, ctx)
    \/ \E off \in ReadOffsets, ctx \in Contexts(2) : Read(off, ctx)
    \/ \E off \in ReadOffsets, batch \in Batches,
          ctx \in Contexts(2 * MaxBatch) : ReadBatch(off, batch, ctx)
    \/ Range
    \/ Tick

Spec == Init /\ [][Next]_vars

\* ------------------------------------------- calls of concurrent goroutines
\* Write running without the exclusive lock
CanLock_none(m) == TRUE
\* Lock returning while goroutines hold the shared lock
CanLock_readers(m) == m.w = 0
\* l.mu.Lock() returns: no goroutine holds the lock in either mode
CanLock(m) == m.w = 0 /\ m.r = {}
\* l.mu.RLock() returns: no goroutine holds the write lock
CanRLock(m) == m.w = 0

\* goroutine p calls l.Write(ctx, data) and waits in l.mu.Lock()
WriteCall(p) ==
    /\ ~panicked
    /\ pc[p] = "idle"
    /\ offset - conf.startOffset < MaxWrites
    /\ pc' = [pc EXCEPT ![p] = "lock"]
    /\ frame' = [frame EXCEPT ![p].res.op = "Write"]
    /\ overlap' = (overlap \/ \E q \in Procs : frame[q].res.op = "Write")
    /\ UNCHANGED memvars
    /\ UNCHANGED streamvars
    /\ UNCHANGED sidevars
    /\ UNCHANGED <<conf, history, active, offset, mu, now, panicked, writes,
                   failed, rotations>>

\* p gets the exclusive lock; data is the payload of its call
WriteLock(p, data) ==
    /\ ~panicked
    /\ pc[p] = "lock"
    /\ CanLock(mu)
    /\ mu' = [mu EXCEPT !.w = p]
    /\ pc' = [pc EXCEPT ![p] = "append"]
    /\ frame' = [frame EXCEPT ![p].data = data]
    /\ UNCHANGED memvars
    /\ UNCHANGED streamvars
    /\ UNCHANGED sidevars
    /\ UNCHANGED <<conf, history, active, offset, now, panicked, writes,
                   failed, rotations, overlap>>

\* p runs l.write up to the end of its loop; ctx is what the calls of
\* ctx.Err() made on the way observe
WriteAppend(p, ctx) ==
    /\ ~panicked
    /\ pc[p] = "append"
    /\ \E a \in {write_append(L, frame[p].data, ctx, now)} :
          /\ history' = a.log.history
          /\ active' = a.log.active
          /\ offset' = a.log.offset
          /\ panicked' = a.panic
          /\ rotations' = rotations + a.extends
          /\ frame' = [frame EXCEPT ![p].res.offset = a.offset,
                                    ![p].res.err = a.err]
    /\ pc' = [pc EXCEPT ![p] = "return"]
    /\ UNCHANGED memvars
    /\ UNCHANGED streamvars
    /\ UNCHANGED sidevars
    /\ UNCHANGED <<conf, mu, now, writes, failed, overlap>>

\* p increments l.offset after a successful append, unlocks and returns
WriteReturn(p) ==
    /\ ~panicked
    /\ pc[p] = "return"
    /\ frame[p].res.op = "Write"
    /\ offset' = IF frame[p].res.err = Nil
                 THEN write_commit(L).offset
                 ELSE offset
    /\ mu' = [mu EXCEPT !.w = 0]
    /\ writes' = IF frame[p].res.err = Nil
                 THEN Append(writes, <<frame[p].res.offset, frame[p].data>>)
                 ELSE writes
    /\ failed' = (failed \/ frame[p].res.err # Nil)
    /\ pc' = [pc EXCEPT ![p] = "idle"]
    /\ frame' = [frame EXCEPT ![p] = NoFrame]
    /\ UNCHANGED memvars
    /\ UNCHANGED streamvars
    /\ UNCHANGED sidevars
    /\ UNCHANGED <<conf, history, active, now, panicked, rotations, overlap>>

\* p calls l.Range(ctx) and waits in l.mu.RLock()
RangeCall(p) ==
    /\ ~panicked
    /\ pc[p] = "idle"
    /\ pc' = [pc EXCEPT ![p] = "rlock"]
    /\ frame' = [frame EXCEPT ![p].res.op = "Range"]
    /\ UNCHANGED memvars
    /\ UNCHANGED streamvars
    /\ UNCHANGED sidevars
    /\ UNCHANGED <<conf, history, active, offset, mu, now, panicked, writes,
                   failed, rotations, overlap>>

\* p gets the shared lock
RangeLock(p) ==
    /\ ~panicked
    /\ pc[p] = "rlock"
    /\ CanRLock(mu)
    /\ mu' = [mu EXCEPT !.r = @ \cup {p}]
    /\ pc' = [pc EXCEPT ![p] = "return"]
    /\ UNCHANGED memvars
    /\ UNCHANGED streamvars
    /\ UNCHANGED sidevars
    /\ UNCHANGED <<conf, history, active, offset, now, panicked, frame,
                   writes, failed, rotations, overlap>>

\* p runs l.offsetRange, unlocks and returns offsetRange(L)
RangeReturn(p) ==
    /\ ~panicked
    /\ pc[p] = "return"
    /\ frame[p].res.op = "Range"
    /\ mu' = [mu EXCEPT !.r = @ \ {p}]
    /\ pc' = [pc EXCEPT ![p] = "idle"]
    /\ frame' = [frame EXCEPT ![p] = NoFrame]
    /\ UNCHANGED memvars
    /\ UNCHANGED streamvars
    /\ UNCHANGED sidevars
    /\ UNCHANGED <<conf, history, active, offset, now, panicked, writes,
                   failed, rotations, overlap>>

NextConc ==
    \/ \E p \in Procs : WriteCall(p)
    \/ \E p \in Procs, data \in Payloads : WriteLock(p, data)
    \/ \E p \in Procs, ctx \in Contexts(3) : WriteAppend(p, ctx)
    \/ \E p \in Procs : WriteReturn(p)
    \/ \E p \in Procs : RangeCall(p)
    \/ \E p \in Procs : RangeLock(p)
    \/ \E p \in Procs : RangeReturn(p)
    \/ Tick

SpecConc == Init /\ [][NextConc]_vars

\* ------------------------------------------- callers sharing byte slices
\* a caller makes a byte slice holding `data`
MemAlloc(data) ==
    /\ ~panicked
    /\ Len(heap) < MaxBufs
    /\ heap' = Append(heap, data)
    /\ held' = [held EXCEPT !.own = @ \cup {Len(heap) + 1}]
    /\ UNCHANGED streamvars
    /\ UNCHANGED sidevars
    /\ UNCHANGED <<conf, history, active, offset, mu, now, panicked, pc, frame,
                   writes, failed, rotations, overlap>>

\* l.Write(ctx, data) with the caller's slice at address a
MemWrite(a, ctx) ==
    /\ ~panicked
    /\ a \in held.own \cup held.got
    /\ Len(heap) < MaxBufs
    /\ offset - conf.startOffset < MaxWrites
    /\ \E w \in {Log_writeRef(L, heap, <<a>>, ctx, now)} :
          /\ heap' = w.heap
          /\ history' = w.res.log.history
          /\ active' = w.res.log.active
          /\ offset' = w.res.log.offset
          /\ panicked' = w.res.panic
          /\ writes' = IF w.res.err = Nil
                       THEN Append(writes, <<w.res.offset, heap[a]>>)
                       ELSE writes
          /\ failed' = (failed \/ w.res.err # Nil)
          /\ rotations' = rotations + w.res.extends
    /\ UNCHANGED streamvars
    /\ UNCHANGED sidevars
    /\ UNCHANGED <<conf, mu, now, pc, frame, overlap, held>>

\* l.Read(ctx, offset): the caller keeps the Data of the record returned
MemRead(off, ctx) ==
    /\ ~panicked
    /\ Len(heap) < MaxBufs
    /\ \E r \in {Log_readRef(L, heap, off, ctx)} :
          /\ heap' = r.heap
          /\ held' = [held EXCEPT !.got = @ \cup
                        {r.rec.data[k] : k \in 1..Len(r.rec.data)}]
    /\ UNCHANGED streamvars
    /\ UNCHANGED sidevars
    /\ UNCHANGED <<conf, history, active, offset, mu, now, panicked, pc, frame,
                   writes, failed, rotations, overlap>>

\* a caller assigns byte b to element i of a slice it holds
MemMutate(a, i, b) ==
    /\ ~panicked
    /\ a \in held.own \cup held.got
    /\ i \in 1..Len(heap[a])
    /\ heap' = [heap EXCEPT ![a][i] = b]
    /\ UNCHANGED streamvars
    /\ UNCHANGED sidevars
    /\ UNCHANGED <<conf, history, active, offset, mu, now, panicked, pc, frame,
                   writes, failed, rotations, overlap, held>>

NextMem ==
    \/ \E data \in Payloads : MemAlloc(data)
    \/ \E a \in 1..MaxBufs, ctx \in Contexts(3) : MemWrite(a, ctx)
    \/ \E off \in ReadOffsets, ctx \in Contexts(2) : MemRead(off, ctx)
    \/ \E a \in 1..MaxBufs, i \in 1..(MaxRecordSize + 1), b \in Bytes :
           MemMutate(a, i, b)

SpecMem == Init /\ [][NextMem]_vars

\* ------------------------------------------- a stream and its consumer
\* the stream's context as a call made now sees it
StreamCtx == IF sctx = Nil THEN [live |-> 3, err |-> Canceled]
             ELSE [live |-> 0, err |-> sctx]

\* l.Stream(ctx, start): makes the channels and starts the goroutine
StreamStart(start) ==
    /\ ~panicked
    /\ spc = "none"
    /\ spc' = "select"
    /\ sstart' = start
    /\ soffset' = start
    /\ UNCHANGED <<conf, history, active, offset, mu, now, panicked, pc, frame,
                   writes, failed, rotations, overlap, memvars,
                   sidevars>>
    /\ UNCHANGED <<sctx, serr, streamCh, recvd, cerr, cancelAt, waited>>

\* as StreamSelect, but a goroutine that returns on ctx.Done() without
\* sending ctx.Err() on errCh
StreamSelect_drop ==
    /\ ~panicked
    /\ spc = "select"
    /\ IF sctx # Nil
       THEN spc' = "done" /\ serr' = serr
       ELSE spc' = "sendOne" /\ serr' = serr
    /\ UNCHANGED <<conf, history, active, offset, mu, now, panicked, pc, frame,
                   writes, failed, rotations, overlap, memvars,
                   sidevars>>
    /\ UNCHANGED <<sctx, sstart, soffset, streamCh, recvd, cerr, cancelAt, waited>>

\* the select of the loop: ctx.Done() is closed, or the default case
StreamSelect ==
    /\ ~panicked
    /\ spc = "select"
    /\ IF sctx # Nil
       THEN spc' = "errCh" /\ serr' = sctx
       ELSE spc' = "sendOne" /\ serr' = serr
    /\ UNCHANGED <<conf, history, active, offset, mu, now, panicked, pc, frame,
                   writes, failed, rotations, overlap, memvars,
                   sidevars>>
    /\ UNCHANGED <<sctx, sstart, soffset, streamCh, recvd, cerr, cancelAt, waited>>

\* sendOne(), under the shared lock from l.offsetRange() to the send
StreamSendOne ==
    /\ ~panicked
    /\ spc = "sendOne"
    /\ \E s \in {sendOne(L, streamCh, soffset, StreamCtx)} :
          /\ streamCh' = s.ch
          /\ soffset' = s.offset
          /\ serr' = s.err
          /\ spc' = IF s.err # Nil THEN "errCh" ELSE "select"
          /\ waited' = (waited \/ (s.err = Nil /\ s.ch = streamCh))
    /\ UNCHANGED <<conf, history, active, offset, mu, now, panicked, pc, frame,
                   writes, failed, rotations, overlap, memvars,
                   sidevars>>
    /\ UNCHANGED <<sctx, sstart, recvd, cerr, cancelAt>>

\* the consumer receives from streamCh
ConsumerRecv ==
    /\ ~panicked
    /\ cerr = Nil
    /\ streamCh # <<>>
    /\ recvd' = Append(recvd, Head(streamCh).rec.offset)
    /\ streamCh' = Tail(streamCh)
    /\ UNCHANGED <<conf, history, active, offset, mu, now, panicked, pc, frame,
                   writes, failed, rotations, overlap, memvars,
                   sidevars>>
    /\ UNCHANGED <<sctx, spc, sstart, soffset, serr, cerr, cancelAt, waited>>

\* the consumer receives from errCh what the goroutine sends there; the
\* goroutine returns and closes both channels
ConsumerRecvErr ==
    /\ ~panicked
    /\ spc = "errCh"
    /\ cerr' = serr
    /\ spc' = "done"
    /\ UNCHANGED <<conf, history, active, offset, mu, now, panicked, pc, frame,
                   writes, failed, rotations, overlap, memvars,
                   sidevars>>
    /\ UNCHANGED <<sctx, sstart, soffset, serr, streamCh, recvd, cancelAt, waited>>

\* the consumer cancels the stream's context, or its deadline passes
ConsumerCancel(err) ==
    /\ ~panicked
    /\ spc # "none"
    /\ sctx = Nil
    /\ sctx' = err
    /\ cancelAt' = IF cerr = Nil THEN Len(recvd) ELSE cancelAt
    /\ UNCHANGED <<conf, history, active, offset, mu, now, panicked, pc, frame,
                   writes, failed, rotations, overlap, memvars,
                   sidevars>>
    /\ UNCHANGED <<spc, sstart, soffset, serr, streamCh, recvd, cerr, waited>>

\* the writers running next to a stream write one payload, with a context
\* that stays live
StreamPayloads == {<<1>>}

NextStream ==
    \/ \E data \in StreamPayloads : Write(data, [live |-> 3, err |-> Canceled])
    \/ \E start \in ReadOffsets : StreamStart(start)
    \/ StreamSelect
    \/ StreamSendOne
    \/ ConsumerRecv
    \/ ConsumerRecvErr
    \/ \E err \in CtxErrors : ConsumerCancel(err)

SpecStream == Init /\ [][NextStream]_vars

\* the goroutine of the stream is scheduled again and again, and the consumer
\* keeps receiving
SpecStreamFair ==
    /\ SpecStream
    /\ WF_vars(StreamSelect)
    /\ WF_vars(StreamSendOne)
    /\ WF_vars(ConsumerRecv)

\* ------------------------------------------- a stream and a slow consumer
\* l.Write(ctx, data) of a writer that goes on writing and sleeps after each
\* Write, so that the stream has polled the log before the next one
SlowWrite(data) ==
    /\ ~panicked
    /\ offset - conf.startOffset < MaxSlowWrites
    /\ spc # "none" /\ soffset >= offset
    /\ \E res \in {Log_write(L, data, [live |-> 3, err |-> Canceled], now)} :
          /\ history' = res.log.history
          /\ active' = res.log.active
          /\ offset' = res.log.offset
          /\ panicked' = res.panic
          /\ writes' = IF res.err = Nil
                       THEN Append(writes, <<res.offset, data>>)
                       ELSE writes
          /\ failed' = (failed \/ res.err # Nil)
          /\ rotations' = rotations + res.extends
    /\ UNCHANGED memvars
    /\ UNCHANGED streamvars
    /\ UNCHANGED sidevars
    /\ UNCHANGED <<conf, mu, now, pc, frame, overlap>>

\* the consumer receives from streamCh, a few times in all
SlowRecv ==
    /\ Len(recvd) < MaxSlowRecv
    /\ ConsumerRecv

NextSlow ==
    \/ \E data \in StreamPayloads : SlowWrite(data)
    \/ StreamStart(conf.startOffset)
    \/ StreamSelect
    \/ StreamSendOne
    \/ SlowRecv
    \/ ConsumerRecvErr
    \/ ConsumerCancel(Canceled)

SpecSlow == Init /\ [][NextSlow]_vars

\* ------------------------------------------- the iterator and its caller
\* log.stream(ctx, startOffset): an iterator at the start offset, bound to
\* the caller's scope
IterStart(start) ==
    /\ ~panicked
    /\ iter.state = "none"
    /\ iter' = [NoIter EXCEPT !.state = "running", !.position = start]
    /\ UNCHANGED <<conf, history, active, offset, mu, now, panicked, pc, frame,
                   writes, failed, rotations, overlap, memvars, streamvars,
                   slog, shist, rb, streams>>

\* an attempt of next()
IterNext ==
    /\ ~panicked
    /\ iter.state # "none"
    /\ iter' = iterNext(L, iter)
    /\ UNCHANGED <<conf, history, active, offset, mu, now, panicked, pc, frame,
                   writes, failed, rotations, overlap, memvars, streamvars,
                   slog, shist, rb, streams>>

\* the caller's scope is cancelled, or its deadline passes
IterCancel(err) ==
    /\ ~panicked
    /\ iter.state # "none"
    /\ iter.ctx = Nil
    /\ iter' = [iter EXCEPT !.ctx = err]
    /\ UNCHANGED <<conf, history, active, offset, mu, now, panicked, pc, frame,
                   writes, failed, rotations, overlap, memvars, streamvars,
                   slog, shist, rb, streams>>

NextIter ==
    \/ \E data \in StreamPayloads : Write(data, [live |-> 3, err |-> Canceled])
    \/ \E start \in ReadOffsets : IterStart(start)
    \/ IterNext
    \/ \E err \in CtxErrors : IterCancel(err)

SpecIter == Init /\ [][NextIter]_vars

\* ------------------------------------------- the sharded Log and its callers
\* the keys of the KeySharders, "a", "b" and "c", and the lists of them
KeyNames == {<<97>>, <<98>>, <<99>>}
KeyLists == UNION {[1..n -> KeyNames] : n \in 0..MaxKeys}
Sharders == {defaultSharder} \cup {KeySharder(keys) : keys \in KeyLists}
\* the keys the callers pass: nil, "a", "b", "c" and "ac"
ShardKeys == {NilKey} \cup {Key(b) : b \in KeyNames \cup {<<97, 99>>}}
\* the offsets the callers read: the ones the shards may hold, and the next
ShardOffsets == conf.startOffset..(conf.startOffset + MaxShardedWrites)
\* the data the callers write
ShardPayloads == {<<1>>, <<2>>}

\* sharded.New(ctx, WithNumShards(n), WithSharder(sh), ...) with the options
\* of conf for the shards
ShardedNew(n, sh) ==
    /\ ~panicked
    /\ slog = NoSharded
    /\ slog' = sharded_New(conf, n, sh)
    /\ UNCHANGED <<conf, history, active, offset, mu, now, panicked, pc, frame,
                   writes, failed, rotations, overlap, memvars, streamvars,
                   iter, shist, rb, streams>>

\* l.Write(ctx, key, data) of the sharded Log
ShardedWrite(key, data, ctx) ==
    /\ ~panicked
    /\ slog # NoSharded
    /\ Len(shist.writes) < MaxShardedWrites
    /\ \E res \in {sharded_Write(slog, key, data, ctx, now)} :
          /\ slog' = res.log
          /\ panicked' = res.panic
          /\ shist' = IF res.panic THEN shist
                      ELSE IF res.err # Nil THEN [shist EXCEPT !.fail = res.err]
                      ELSE [shist EXCEPT !.writes =
                               Append(@, [key |-> key, offset |-> res.offset,
                                          data |-> data])]
    /\ UNCHANGED <<conf, history, active, offset, mu, now, pc, frame,
                   writes, failed, rotations, overlap, memvars, streamvars,
                   iter, rb, streams>>

\* l.Read(ctx, key, offset) of the sharded Log: the call returns
\* sharded_Read(slog, key, off, ctx) and assigns nothing
ShardedRead(key, off, ctx) ==
    /\ ~panicked
    /\ slog # NoSharded
    /\ panicked' = sharded_Read(slog, key, off, ctx).panic
    /\ UNCHANGED <<conf, history, active, offset, mu, now, pc, frame,
                   writes, failed, rotations, overlap, memvars, streamvars,
                   sidevars>>

\* the contexts of the callers of the sharded Log: live for the whole call,
\* or cancelled before it
ShardCtxs == {[live |-> 3, err |-> Canceled], [live |-> 0, err |-> Canceled]}

NextSharded ==
    \/ \E n \in 2..MaxShards, sh \in Sharders : ShardedNew(n, sh)
    \/ \E key \in ShardKeys, data \in ShardPayloads, ctx \in ShardCtxs :
          ShardedWrite(key, data, ctx)
    \/ \E key \in ShardKeys, off \in ShardOffsets :
          ShardedRead(key, off, [live |-> 3, err |-> Canceled])

SpecSharded == Init /\ [][NextSharded]_vars

\* ------------------------------------------- ReadBatch next to writers
\* l.ReadBatch(ctx, off, batch) takes the shared lock
BatchLock(off, batch) ==
    /\ ~panicked
    /\ rb.pc = "idle"
    /\ CanRLock(mu)
    /\ mu' = [mu EXCEPT !.r = @ \cup {0}]
    /\ rb' = [NoBatch EXCEPT !.pc = "loop", !.start = off, !.off = off,
                             !.batch = batch, !.snap = <<L>>]
    /\ UNCHANGED <<conf, history, active, offset, now, panicked, pc, frame,
                   writes, failed, rotations, overlap, memvars, streamvars,
                   iter, slog, shist, streams>>

\* one turn of its loop, with a context that stays live
BatchRead ==
    /\ ~panicked
    /\ rb.pc = "loop"
    /\ rb' = readBatchStep(L, rb, [live |-> 3, err |-> Canceled])
    /\ UNCHANGED <<conf, history, active, offset, mu, now, panicked, pc, frame,
                   writes, failed, rotations, overlap, memvars, streamvars,
                   iter, slog, shist, streams>>

\* the deferred l.mu.RUnlock(); the call returns (rb.n, rb.err)
BatchUnlock ==
    /\ ~panicked
    /\ rb.pc = "unlock"
    /\ mu' = [mu EXCEPT !.r = @ \ {0}]
    /\ rb' = [rb EXCEPT !.pc = "idle"]
    /\ UNCHANGED <<conf, history, active, offset, now, panicked, pc, frame,
                   writes, failed, rotations, overlap, memvars, streamvars,
                   iter, slog, shist, streams>>

\* l.Write(ctx, data) of a writer running next to the reader: Lock, l.write
\* and Unlock, once Lock returns
BatchWrite(data, ctx) ==
    /\ CanLock(mu)
    /\ Write(data, ctx)

NextBatch ==
    \/ \E off \in ReadOffsets, batch \in Batches : BatchLock(off, batch)
    \/ BatchRead
    \/ BatchUnlock
    \/ \E data \in StreamPayloads, ctx \in Contexts(3) : BatchWrite(data, ctx)

SpecBatch == Init /\ [][NextBatch]_vars

\* ------------------------------------------- streams running side by side
\* the context of stream i as a call made now sees it
StreamsCtx(i) == IF streams[i].ctx = Nil THEN [live |-> 3, err |-> Canceled]
                 ELSE [live |-> 0, err |-> streams[i].ctx]

\* a goroutine waits in l.mu.Lock(): sync.RWMutex lets no further reader in
Waiting == \E p \in Procs : pc[p] = "lock"

\* what a step of a stream leaves alone, the lock apart
StreamsFrame ==
    UNCHANGED <<conf, history, active, offset, now, panicked, pc, frame,
                writes, failed, rotations, overlap, memvars, streamvars,
                iter, slog, shist, rb>>

\* l.Stream(ctx, start): makes the channels of stream i and starts its
\* goroutine
StreamsStart(i, start) ==
    /\ ~panicked
    /\ streams[i].pc = "none"
    /\ streams' = [streams EXCEPT ![i].pc = "select", ![i].start = start,
                                  ![i].offset = start]
    /\ StreamsFrame
    /\ UNCHANGED mu

\* the select of the loop of stream i and the test of sendOne that comes
\* before the lock: ctx.Done() is closed, streamCh is full, or the goroutine
\* goes on to l.mu.RLock()
StreamsSelect(i) ==
    /\ ~panicked
    /\ streams[i].pc = "select"
    /\ streams' = IF streams[i].ctx # Nil
                  THEN [streams EXCEPT ![i].pc = "errCh",
                                       ![i].err = streams[i].ctx]
                  ELSE IF Len(streams[i].ch) = streamBuffer
                  THEN [streams EXCEPT ![i].pc = "errCh",
                                       ![i].err = ErrSlowReader]
                  ELSE [streams EXCEPT ![i].pc = "RLock"]
    /\ StreamsFrame
    /\ UNCHANGED mu

\* l.mu.RLock() of sendOne returns: no goroutine holds the write lock and
\* none waits for it
StreamsRLock(i) ==
    /\ ~panicked
    /\ streams[i].pc = "RLock"
    /\ CanRLock(mu)
    /\ ~Waiting
    /\ mu' = [mu EXCEPT !.r = @ \cup {-i}]
    /\ streams' = [streams EXCEPT ![i].pc = "sendOne"]
    /\ StreamsFrame

\* as StreamsSendOne, but every goroutine reading and advancing the variable
\* offset of the first stream
StreamsSendOne_shared(i) ==
    /\ ~panicked
    /\ streams[i].pc = "sendOne"
    /\ \E s \in {sendOne(L, streams[i].ch, streams[1].offset, StreamsCtx(i))} :
          streams' = [streams EXCEPT
                         ![i].ch = s.ch,
                         ![i].err = s.err,
                         ![i].pc = IF s.err # Nil THEN "errCh" ELSE "select",
                         ![1].offset = s.offset]
    /\ mu' = [mu EXCEPT !.r = @ \ {-i}]
    /\ StreamsFrame

\* as StreamsSendOne, but without the deferred l.mu.RUnlock()
StreamsSendOne_hold(i) ==
    /\ ~panicked
    /\ streams[i].pc = "sendOne"
    /\ \E s \in {sendOne(L, streams[i].ch, streams[i].offset, StreamsCtx(i))} :
          streams' = [streams EXCEPT
                         ![i].ch = s.ch,
                         ![i].offset = s.offset,
                         ![i].err = s.err,
                         ![i].pc = IF s.err # Nil THEN "errCh" ELSE "select"]
    /\ mu' = mu
    /\ StreamsFrame

\* sendOne() of stream i from l.offsetRange() to its return, the back-off
\* and the send included, and the deferred l.mu.RUnlock()
StreamsSendOne(i) ==
    /\ ~panicked
    /\ streams[i].pc = "sendOne"
    /\ \E s \in {sendOne(L, streams[i].ch, streams[i].offset, StreamsCtx(i))} :
          streams' = [streams EXCEPT
                         ![i].ch = s.ch,
                         ![i].offset = s.offset,
                         ![i].err = s.err,
                         ![i].pc = IF s.err # Nil THEN "errCh" ELSE "select"]
    /\ mu' = [mu EXCEPT !.r = @ \ {-i}]
    /\ StreamsFrame

\* the consumer of stream i receives from its streamCh
StreamsRecv(i) ==
    /\ ~panicked
    /\ streams[i].cerr = Nil
    /\ streams[i].ch # <<>>
    /\ streams' = [streams EXCEPT
                      ![i].recvd = Append(@, Head(streams[i].ch).rec.offset),
                      ![i].ch = Tail(@)]
    /\ StreamsFrame
    /\ UNCHANGED mu

\* the consumer of stream i receives from its errCh what the goroutine sends
\* there; the goroutine returns and closes both channels
StreamsRecvErr(i) ==
    /\ ~panicked
    /\ streams[i].pc = "errCh"
    /\ streams' = [streams EXCEPT ![i].cerr = streams[i].err,
                                  ![i].pc = "done"]
    /\ StreamsFrame
    /\ UNCHANGED mu

\* the context of stream i is cancelled
StreamsCancel(i) ==
    /\ ~panicked
    /\ streams[i].pc # "none"
    /\ streams[i].ctx = Nil
    /\ streams' = [streams EXCEPT ![i].ctx = Canceled]
    /\ StreamsFrame
    /\ UNCHANGED mu

\* a writer running next to the streams calls l.Write(ctx, data)
StreamsWriteCall(p) ==
    /\ offset - conf.startOffset < MaxStreamsWrites
    /\ WriteCall(p)

\* the start offsets passed to Stream: the second stream starts after the
\* first one and at a later offset
StreamsStarts(i) ==
    IF i = 1 THEN 0..(MaxStartOffset + 1)
    ELSE IF streams[1].pc = "none" THEN {}
    ELSE (streams[1].start + 1)..(MaxStartOffset + 2)

\* the contexts of the writer: ctx.Err() returns nil a number of times, then
\* context.Canceled
StreamsWriteCtxs == {c \in Contexts(3) : c.err = Canceled}

NextStreams ==
    \/ StreamsWriteCall(1)
    \/ \E data \in StreamPayloads : WriteLock(1, data)
    \/ \E ctx \in StreamsWriteCtxs : WriteAppend(1, ctx)
    \/ WriteReturn(1)
    \/ \E i \in StreamIds : \E start \in StreamsStarts(i) : StreamsStart(i, start)
    \/ \E i \in StreamIds : StreamsSelect(i)
    \/ \E i \in StreamIds : StreamsRLock(i)
    \/ \E i \in StreamIds : StreamsSendOne(i)
    \/ \E i \in StreamIds : StreamsRecv(i)
    \/ \E i \in StreamIds : StreamsRecvErr(i)
    \/ \E i \in StreamIds : StreamsCancel(i)

SpecStreams == Init /\ [][NextStreams]_vars

\* ------------------------------------------- streams polling next to writers
\* a writer running next to the polling streams calls l.Write(ctx, data)
PollWriteCall(p) ==
    /\ offset - conf.startOffset < MaxPollWrites
    /\ WriteCall(p)

NextPoll ==
    \/ \E p \in Procs : PollWriteCall(p)
    \/ \E p \in Procs, data \in StreamPayloads : WriteLock(p, data)
    \/ \E p \in Procs, ctx \in StreamsWriteCtxs : WriteAppend(p, ctx)
    \/ \E p \in Procs : WriteReturn(p)
    \/ \E i \in StreamIds : \E start \in StreamsStarts(i) : StreamsStart(i, start)
    \/ \E i \in StreamIds : StreamsSelect(i)
    \/ \E i \in StreamIds : StreamsRLock(i)
    \/ \E i \in StreamIds : StreamsSendOne(i)
    \/ \E i \in StreamIds : StreamsRecvErr(i)

SpecPoll == Init /\ [][NextPoll]_vars

\* a goroutine inside sendOne runs on to its return, the back-off being
\* finite; a goroutine waiting in l.mu.Lock() gets the lock when it is free
\* again and again (sync.Mutex hands the lock to a starving waiter); a
\* goroutine holding the exclusive lock runs on to its return
SpecPollFair ==
    /\ SpecPoll
    /\ \A i \in StreamIds : WF_vars(StreamsSendOne(i))
    /\ \A p \in Procs :
          /\ SF_vars(\E data \in StreamPayloads : WriteLock(p, data))
          /\ WF_vars(\E ctx \in StreamsWriteCtxs : WriteAppend(p, ctx))
          /\ WF_vars(WriteReturn(p))

\* ------------------------------------------------------------------ claims
\* a context that stays live for the whole call
Live == [live |-> 3, err |-> Canceled]
\* what l.Read(ctx, o) returns in log l with a live context
ReadOf(l, o) == Log_read(l, o, Live)
\* the offsets for which Read succeeds in log l
Readable(l) == {o \in ReadOffsets : ReadOf(l, o).err = Nil}
\* the log after the step
LNext == [conf |-> conf', history |-> history', active |-> active',
          offset |-> offset']
\* the offsets successful writes have returned, and the bytes written at one
WrittenOffsets == {writes[k][1] : k \in 1..Len(writes)}
DataOf(o) == writes[CHOOSE k \in 1..Len(writes) : writes[k][1] = o][2]
\* the outcome of Read(o) as a stage: not yet written, readable, purged
Stage(l, o) ==
    LET err == ReadOf(l, o).err
    IN IF err = ErrFutureOffset THEN 0 ELSE IF err = Nil THEN 1 ELSE 2
\* the variables holding the Log
logvars == <<conf, history, active, offset>>

\* C1: the k-th successful Write returns startOffset + k - 1, whatever failed
\* Writes come in between: a failed Write returns -1 and consumes no offset,
\* so the next offset is always startOffset + the number of successful Writes.
C1_OffsetsDense ==
    /\ offset = conf.startOffset + Len(writes)
    /\ \A k \in 1..Len(writes) : writes[k][1] = conf.startOffset + k - 1
    /\ \A data \in Payloads, ctx \in Contexts(3) :
          LET res == Log_write(L, data, ctx, now)
          IN IF res.err = Nil
             THEN /\ res.offset = conf.startOffset + Len(writes)
                  /\ res.log.offset = offset + 1
             ELSE /\ res.offset = -1
                  /\ res.log.offset = offset
\* three Writes have succeeded and rotated the segments, another has failed
C1_Witness == failed /\ Len(writes) >= 3 /\ rotations >= 1

\* C2: every offset in the Range [earliest, latest] of a log that is not
\* empty reads back, with a live context, as the record of that offset holding
\* the bytes written there.
C2_RoundTrip ==
    \A o \in ReadOffsets :
        (/\ offsetRange(L).earliest # -1
         /\ offsetRange(L).earliest <= o /\ o <= offsetRange(L).latest) =>
            /\ ReadOf(L, o).err = Nil
            /\ ReadOf(L, o).rec.offset = o
            /\ ReadOf(L, o).rec.data = DataOf(o)

\* C3: Read succeeds for at most 2 * segmentSize offsets.
C3_RetentionBound == Cardinality(Readable(L)) <= 2 * conf.segmentSize
\* history and active segment are both full, with segments of two records
C3_Witness ==
    conf.segmentSize = 2 /\ Cardinality(Readable(L)) = 2 * conf.segmentSize

\* C4: Range is (-1, -1) exactly when no Write has succeeded; otherwise
\* neither value is -1 and earliest <= latest.
C4_RangeConsistency ==
    IF writes = <<>>
    THEN offsetRange(L) = [earliest |-> -1, latest |-> -1]
    ELSE /\ offsetRange(L).earliest # -1
         /\ offsetRange(L).latest # -1
         /\ offsetRange(L).earliest <= offsetRange(L).latest

\* C5 as stated: after r >= 1 rotations earliest is
\* startOffset + r * segmentSize.
C5_EarliestAsStated ==
    rotations >= 1 =>
        offsetRange(L).earliest = conf.startOffset + rotations * conf.segmentSize
\* C5 amended: after r >= 1 rotations earliest is
\* startOffset + (r - 1) * segmentSize; after 2 * segmentSize writes and their
\* one rotation Range is (startOffset, startOffset + 2 * segmentSize - 1) and
\* Read(startOffset) still succeeds.
C5_EarliestAfterRotations ==
    /\ rotations >= 1 =>
          offsetRange(L).earliest =
              conf.startOffset + (rotations - 1) * conf.segmentSize
    /\ (rotations = 1 /\ Len(writes) = 2 * conf.segmentSize) =>
          /\ offsetRange(L) =
                [earliest |-> conf.startOffset,
                 latest |-> conf.startOffset + 2 * conf.segmentSize - 1]
          /\ ReadOf(L, conf.startOffset).err = Nil
\* after the second rotation of two-record segments Range reports
\* startOffset + 2 as the earliest offset
C5_Witness ==
    /\ rotations = 2 /\ conf.segmentSize = 2
    /\ offsetRange(L).earliest = conf.startOffset + 2

\* C6: the first rotation purges nothing: earliest stays startOffset and every
\* offset readable before it, and every offset written so far, is readable
\* after it.  Every later rotation makes exactly the offsets of the previous
\* history segment unreadable and raises earliest by segmentSize.
C6_RotationPurge ==
    [][rotations' # rotations =>
        IF rotations = 0
        THEN /\ offsetRange(LNext).earliest = conf.startOffset
             /\ Readable(L) \subseteq Readable(LNext)
             /\ {writes'[k][1] : k \in 1..Len(writes')} \subseteq Readable(LNext)
        ELSE /\ offsetRange(LNext).earliest =
                    offsetRange(L).earliest + conf.segmentSize
             /\ Readable(L) \ Readable(LNext) =
                    history[1].start..(history[1].start + conf.segmentSize - 1)
             /\ Readable(L) \ Readable(LNext) \subseteq Readable(L)
             /\ Cardinality(Readable(L) \ Readable(LNext)) = conf.segmentSize
    ]_vars
\* a first and a later rotation have happened, with two-record segments
C6_Witness == rotations >= 2 /\ conf.segmentSize = 2

\* C7: with a live context Read(o) returns ErrFutureOffset exactly when
\* o >= nextOffset, ErrOutOfRange exactly when o is below startOffset or below
\* the earliest retained offset, and otherwise the record of offset o without
\* an error; with any context, an error comes with the empty record.
C7_ReadErrors ==
    \A o \in ReadOffsets :
        LET retained == IF history # <<>> THEN history[1].start
                        ELSE conf.startOffset
            res == ReadOf(L, o)
        IN /\ res.err = ErrFutureOffset <=> o >= offset
           /\ res.err = ErrOutOfRange <=> (o < conf.startOffset \/ o < retained)
           /\ res.err \in {Nil, ErrFutureOffset, ErrOutOfRange}
           /\ res.err = Nil => res.rec.offset = o
           /\ \A ctx \in Contexts(2) :
                 Log_read(L, o, ctx).err # Nil =>
                     Log_read(L, o, ctx).rec = EmptyRecord
\* in one state a purged, a retained and a future offset of the log
C7_Witness ==
    /\ rotations >= 2
    /\ ReadOf(L, conf.startOffset).err = ErrOutOfRange
    /\ ReadOf(L, offset - 1).err = Nil
    /\ ReadOf(L, offset).err = ErrFutureOffset

\* C8: for every offset o >= startOffset the outcome of Read(o) only moves
\* forward through ErrFutureOffset, record, ErrOutOfRange; and whenever a
\* history segment exists every such offset below history.start reports
\* ErrOutOfRange.
C8_ReadStages ==
    [][logvars' # logvars =>
        /\ \A o \in ReadOffsets :
               o >= conf.startOffset => Stage(L, o) <= Stage(LNext, o)
        /\ history' # <<>> =>
               \A o \in ReadOffsets :
                   (conf.startOffset <= o /\ o < history'[1].start) =>
                       ReadOf(LNext, o).err = ErrOutOfRange
    ]_vars
\* the first offset of the log has been written and has since been purged
C8_Witness ==
    /\ conf.startOffset \in WrittenOffsets
    /\ ReadOf(L, conf.startOffset).err = ErrOutOfRange
    /\ history # <<>> /\ history[1].start > conf.startOffset

\* the Log as New(...) returns it
NewLog ==
    [conf |-> conf, history |-> <<>>,
     active |-> newSegment(conf.startOffset, conf.segmentSize).seg,
     offset |-> conf.startOffset]
\* the Log after the first n successful writes, made one after the other
RECURSIVE SeqLog(_)
SeqLog(n) ==
    IF n = 0 THEN NewLog
    ELSE Log_write(SeqLog(n - 1), writes[n][2], Live, now).log

\* C9: when the N Write calls made so far, by goroutines running concurrently,
\* have all succeeded, they returned N pairwise distinct offsets, exactly
\* startOffset .. startOffset + N - 1, and once all have returned Range is what
\* the same N writes made one after the other produce.
C9_ConcurrentWrites ==
    ~failed =>
        /\ WrittenOffsets = conf.startOffset..(conf.startOffset + Len(writes) - 1)
        /\ Cardinality(WrittenOffsets) = Len(writes)
        /\ (\A p \in Procs : pc[p] = "idle") =>
               offsetRange(L) = offsetRange(SeqLog(Len(writes)))
\* four Writes, some called while another was under way, have all succeeded
\* and rotated the segments
C9_Witness ==
    /\ overlap /\ ~failed /\ \A p \in Procs : pc[p] = "idle"
    /\ Len(writes) >= 4 /\ rotations >= 1

\* C10: once a Write has returned offset o, a Read(o) started afterwards
\* returns the record or ErrOutOfRange, never ErrFutureOffset, and a Range
\* started afterwards reports latest >= o.
C10_WriteVisible ==
    \A o \in WrittenOffsets :
        /\ ReadOf(L, o).err \in {Nil, ErrOutOfRange}
        /\ offsetRange(L).latest >= o

\* what l.Read(ctx, o) returns in log l over heap h with a live context, the
\* Data of the record as bytes
ReadVal(l, h, o) ==
    LET r == Log_readRef(l, h, o, Live)
    IN [err |-> r.err, offset |-> r.rec.offset, created |-> r.rec.created,
        bytes |-> IF r.rec.data = <<>> THEN <<>> ELSE r.heap[r.rec.data[1]]]

\* C11: whatever a caller does to the slice it passed to Write or to the Data
\* of a record Read returned, and whatever slices Read hands out meanwhile,
\* Read of any offset returns afterwards what it returned before; a Write
\* changes no byte of a slice that exists.
C11_Isolation ==
    [][heap' # heap =>
        /\ logvars' = logvars =>
               \A o \in ReadOffsets :
                   ReadVal(LNext, heap', o) = ReadVal(L, heap, o)
        /\ Len(heap') > Len(heap) =>
               \A a \in 1..Len(heap) : heap'[a] = heap[a]
    ]_vars
\* a caller holds the slice it wrote at a retained offset and the Data a Read
\* of that offset returned, and both differ from the bytes written
C11_Witness ==
    \E o \in WrittenOffsets, a \in held.own, b \in held.got :
        /\ ReadVal(L, heap, o).err = Nil
        /\ ReadVal(L, heap, o).bytes = DataOf(o)
        /\ heap[a] # DataOf(o) /\ Len(heap[a]) = Len(DataOf(o))
        /\ heap[b] # DataOf(o) /\ Len(heap[b]) = Len(DataOf(o))

\* the contexts that are cancelled or past their deadline when the call starts
Tripped == {ctx \in Contexts(3) : ctx.live = 0}

\* C12: with a context already cancelled or past its deadline Write returns
\* (-1, ctx.Err()), Read returns (Record{}, ctx.Err()) and ReadBatch with a
\* non-empty batch returns (0, ctx.Err()), whatever the data and the offset
\* are, and the Log and the batch stay as they were.
C12_CancelledFirst ==
    \A ctx \in Tripped :
        /\ \A data \in Payloads :
              /\ Log_write(L, data, ctx, now).offset = -1
              /\ Log_write(L, data, ctx, now).err = ctx.err
              /\ Log_write(L, data, ctx, now).log = L
              /\ Log_write(L, data, ctx, now).extends = 0
        /\ \A o \in ReadOffsets :
              /\ Log_read(L, o, ctx) = [rec |-> EmptyRecord, err |-> ctx.err]
              /\ \A batch \in Batches \ {<<>>} :
                    Log_ReadBatch(L, o, batch, ctx) =
                        [n |-> 0, batch |-> batch, err |-> ctx.err]
\* a Write has failed; the active segment is full, so that a Write would
\* rotate, and the log holds purged, retained and future offsets
C12_Witness ==
    /\ failed /\ rotations >= 2
    /\ Len(active[1].data) = active[1].cap
    /\ ReadOf(L, conf.startOffset).err = ErrOutOfRange
    /\ ReadOf(L, offset - 1).err = Nil

\* C13: Write of empty data returns -1 and an error, Write of more than
\* maxRecordSize bytes returns -1 and an error, ErrRecordTooLarge unless the
\* context is tripped; both leave the Log as it was, so that the next
\* successful Write gets the offset it would have got.  Data of exactly
\* maxRecordSize bytes is written at the next offset.
C13_DataSize ==
    \A data \in Payloads :
        /\ (Len(data) = 0 \/ Len(data) > conf.maxRecordSize) =>
              \A ctx \in Contexts(3) :
                  LET res == Log_write(L, data, ctx, now)
                  IN /\ res.offset = -1
                     /\ res.err # Nil
                     /\ res.log = L
                     /\ ctx.live > 0 =>
                           res.err = IF Len(data) = 0 THEN ErrNoData
                                     ELSE ErrRecordTooLarge
                     /\ \A d2 \in Payloads :
                           Log_write(res.log, d2, Live, now) =
                               Log_write(L, d2, Live, now)
        /\ Len(data) = conf.maxRecordSize =>
              /\ Log_write(L, data, Live, now).err = Nil
              /\ Log_write(L, data, Live, now).offset = offset
\* a Write has failed and Writes of exactly maxRecordSize bytes have rotated
\* the segments
C13_Witness ==
    /\ failed /\ rotations >= 1
    /\ \E k \in 1..Len(writes) : Len(writes[k][2]) = conf.maxRecordSize

\* a context that stays live for a whole call of ReadBatch
LiveBatch == [live |-> 2 * MaxBatch, err |-> Canceled]
\* what l.ReadBatch(ctx, o, batch) returns with a live context
BatchOf(l, o, batch) == Log_ReadBatch(l, o, batch, LiveBatch)
\* the offsets of the records a caller gets who calls ReadBatch with a batch of
\* length m again and again, from offset o on, advancing the offset by the
\* count returned, until ReadBatch returns an error
RECURSIVE BatchWalk(_, _, _)
BatchWalk(l, o, m) ==
    LET res == BatchOf(l, o, [k \in 1..m |-> StaleRecord])
        got == [k \in 1..res.n |-> res.batch[k].offset]
    IN IF res.err # Nil THEN got ELSE got \o BatchWalk(l, o + res.n, m)
\* the smaller of two numbers
Min(a, b) == IF a <= b THEN a ELSE b

\* ReadBatch from a readable offset o: the count, the records and the error
C14_Readable ==
    \A o \in Readable(L), batch \in Batches :
        LET res == BatchOf(L, o, batch)
            n == Min(Len(batch), offset - o)
        IN /\ res.n = n
           /\ \A i \in 1..n :
                 /\ res.batch[i].offset = o + i - 1
                 /\ res.batch[i] = ReadOf(L, o + i - 1).rec
           /\ res.err = IF n = Len(batch) THEN Nil ELSE ErrFutureOffset
\* ReadBatch again and again, with batches of length m >= 1, from a readable
\* offset o: every offset from o to the tail once, in order
C14_Walk ==
    \A o \in Readable(L), m \in 1..MaxBatch :
        BatchWalk(L, o, m) = [k \in 1..(offset - o) |-> o + k - 1]
\* C14 as stated: as amended, and ReadBatch at offset = nextOffset returns
\* (0, ErrFutureOffset) whatever the batch is.
C14_AsStated ==
    /\ C14_Readable
    /\ C14_Walk
    /\ \A batch \in Batches :
          /\ BatchOf(L, offset, batch).n = 0
          /\ BatchOf(L, offset, batch).err = ErrFutureOffset
\* C14 amended: ReadBatch from a readable offset o returns
\* n = min(len(batch), nextOffset - o), batch[0..n-1] are the records of
\* offsets o .. o+n-1 as Read returns them, the error is nil when
\* n = len(batch) and ErrFutureOffset otherwise; ReadBatch at nextOffset
\* returns (0, ErrFutureOffset) when the batch is not empty and (0, nil) when
\* it is; repeating ReadBatch with the offset advanced by n visits every
\* offset up to the tail once, in order.
C14_ReadBatch ==
    /\ C14_Readable
    /\ C14_Walk
    /\ \A batch \in Batches :
          /\ BatchOf(L, offset, batch).n = 0
          /\ BatchOf(L, offset, batch).err =
                IF batch = <<>> THEN Nil ELSE ErrFutureOffset
\* a batch of three that starts in the history segment, crosses into the
\* active segment and ends at the tail after two records
C14_Witness ==
    /\ history # <<>> /\ rotations >= 2
    /\ \E o \in Readable(L) :
          /\ o < active[1].start /\ o + 1 >= active[1].start
          /\ BatchOf(L, o, [k \in 1..3 |-> StaleRecord]).n = 2
          /\ BatchOf(L, o, [k \in 1..3 |-> StaleRecord]).err = ErrFutureOffset

\* C15: with a live context and a non-empty batch, ReadBatch from an offset
\* below startOffset or purged returns (0, ErrOutOfRange) and leaves the batch
\* as it was; and whenever ReadBatch returns ErrOutOfRange, with any context,
\* it is the read of its start offset that failed so and no element of the
\* batch has been assigned.
C15_BatchOutOfRange ==
    \A o \in ReadOffsets, batch \in Batches \ {<<>>} :
        /\ (o < conf.startOffset \/ (history # <<>> /\ o < history[1].start)) =>
              BatchOf(L, o, batch) =
                  [n |-> 0, batch |-> batch, err |-> ErrOutOfRange]
        /\ \A ctx \in Contexts(2 * MaxBatch) :
              Log_ReadBatch(L, o, batch, ctx).err = ErrOutOfRange =>
                  /\ Log_read(L, o, ctx).err = ErrOutOfRange
                  /\ Log_ReadBatch(L, o, batch, ctx).batch = batch
                  /\ Log_ReadBatch(L, o, batch, ctx).n = 0
\* the log has offsets below its start offset and purged ones, and a batch
\* that starts at the earliest retained offset runs through both segments
C15_Witness ==
    /\ conf.startOffset > 0 /\ rotations >= 2
    /\ history # <<>> /\ history[1].start > conf.startOffset
    /\ BatchOf(L, history[1].start - 1, <<StaleRecord>>).err = ErrOutOfRange
    /\ BatchOf(L, history[1].start, <<StaleRecord, StaleRecord>>).n = 2

\* offset o is below the start offset of the log or has been purged
Purged(o) == o < conf.startOffset \/ (history # <<>> /\ o < history[1].start)
\* the stream's goroutine is in its loop
Streaming == spc \in {"select", "sendOne"}

\* C16: the records a stream started at offset s has delivered, followed by
\* the ones it has buffered, have the offsets s, s+1, s+2, ... in this order,
\* and the stream reads next the offset after them, whatever the writers and
\* the rotations do meanwhile.
C16_StreamOrder ==
    spc # "none" =>
        /\ \A k \in 1..Len(recvd) : recvd[k] = sstart + k - 1
        /\ \A j \in 1..Len(streamCh) :
              streamCh[j].rec.offset = sstart + Len(recvd) + j - 1
        /\ soffset = sstart + Len(recvd) + Len(streamCh)
\* a stream started above the start offset has delivered three records while
\* the log rotated twice
C16_Witness ==
    /\ sstart > conf.startOffset /\ conf.segmentSize = 1
    /\ Len(recvd) >= 3 /\ rotations >= 2 /\ Streaming

\* C17: when a stream whose context is live polls the log and its offset is
\* below startOffset or purged, it sends nothing and its goroutine ends with
\* ErrOutOfRange, which the consumer receives; a stream that has ended sends
\* nothing more; and a record a stream sends is the one of the offset the
\* stream was at, never a later one.
C17_OutOfRangeStops ==
    [][streamvars' # streamvars =>
        /\ (/\ spc = "sendOne" /\ spc' # "sendOne"
            /\ sctx = Nil /\ Len(streamCh) < streamBuffer
            /\ Purged(soffset)) =>
               /\ spc' = "errCh" /\ serr' = ErrOutOfRange
               /\ streamCh' = streamCh /\ soffset' = soffset
        /\ spc \in {"errCh", "done"} =>
               /\ spc' \in {"errCh", "done"}
               /\ serr' = serr /\ soffset' = soffset
               /\ Len(streamCh') <= Len(streamCh)
        /\ (spc = "errCh" /\ spc' = "done") => cerr' = serr
        /\ Len(streamCh') > Len(streamCh) =>
               /\ Len(streamCh') = Len(streamCh) + 1
               /\ streamCh'[Len(streamCh')].rec.offset = soffset
               /\ soffset' = soffset + 1
    ]_vars
\* a stream has delivered a record, the log has then rotated past the
\* stream's offset, and the consumer has received ErrOutOfRange
C17_Witness ==
    /\ spc = "done" /\ cerr = ErrOutOfRange /\ sctx = Nil
    /\ Len(recvd) >= 1 /\ sstart >= conf.startOffset
    /\ streamCh = <<>>

\* C18: a poll of a stream at an offset not yet written, with a live context
\* and a record channel that is not full, sends nothing, fails with nothing and leaves the stream where it is; and a
\* stream that is at a written offset o with a live context leads to the
\* consumer having received offset o, unless the context is cancelled or o is
\* purged first.
C18_FutureOffset ==
    /\ [][(/\ spc = "sendOne" /\ spc' # "sendOne"
           /\ sctx = Nil /\ Len(streamCh) < streamBuffer
           /\ soffset >= offset /\ soffset >= conf.startOffset) =>
              /\ spc' = "select" /\ serr' = Nil
              /\ streamCh' = streamCh /\ soffset' = soffset
              /\ recvd' = recvd /\ cerr' = Nil
         ]_vars
    /\ \A o \in ReadOffsets :
          (Streaming /\ soffset = o /\ o < offset /\ sctx = Nil)
              ~> (\/ \E k \in 1..Len(recvd) : recvd[k] = o
                  \/ sctx # Nil
                  \/ Purged(o))
\* a stream started at an offset not yet written has delivered the record
\* written there later
C18_Witness ==
    /\ waited /\ sstart > conf.startOffset /\ sctx = Nil
    /\ Len(writes) = sstart - conf.startOffset + 1
    /\ recvd = <<sstart>>

\* C19: once the consumer has cancelled the context right after it received
\* its k-th record, it receives no further record, and the error it receives
\* is the context's.
C19_CancelStops ==
    cancelAt >= 1 =>
        /\ Len(recvd) = cancelAt
        /\ cerr # Nil => cerr = sctx

\* C20 as stated: a poll ends the stream with ErrSlowReader exactly when it
\* finds the record channel full and a record ready to be sent.
C20_AsStated ==
    [][(spc = "sendOne" /\ spc' # "sendOne") =>
          (serr' = ErrSlowReader <=>
              (Len(streamCh) = streamBuffer /\ ReadOf(L, soffset).err = Nil))
    ]_vars
\* C20 amended: a poll ends the stream with ErrSlowReader exactly when it
\* finds streamBuffer = 100 records in the record channel, whether or not a
\* record is ready at the stream's offset; it then sends nothing, and no
\* other step ends a stream with ErrSlowReader; the channel never holds more
\* than 100 records.
C20_SlowReader ==
    [][streamvars' # streamvars =>
        /\ (spc = "sendOne" /\ spc' # "sendOne") =>
               /\ serr' = ErrSlowReader <=> Len(streamCh) = streamBuffer
               /\ serr' = ErrSlowReader =>
                     spc' = "errCh" /\ streamCh' = streamCh
        /\ (serr' = ErrSlowReader /\ serr # ErrSlowReader) => spc = "sendOne"
        /\ Len(streamCh') <= streamBuffer
    ]_vars
\* the consumer has received ErrSlowReader from a stream that found its
\* channel full at an offset not yet written
C20_Witness ==
    /\ spc = "done" /\ cerr = ErrSlowReader
    /\ Len(streamCh) = streamBuffer
    /\ soffset = offset

\* C21: a stream that terminates sends one error on errCh and no record after
\* it; the goroutine returns, and closes streamCh and errCh, in the step in
\* which the consumer receives that error, and never again
C21_ErrorThenClose ==
    [][/\ (spc # "done" /\ spc' = "done")
            => (spc = "errCh" /\ serr # Nil /\ cerr = Nil /\ cerr' = serr)
       /\ spc = "errCh"
            => (/\ spc' \in {"errCh", "done"}
                /\ serr # Nil /\ serr' = serr
                /\ Len(streamCh') <= Len(streamCh))
       /\ spc = "done"
            => (/\ spc' = "done"
                /\ serr' = serr /\ cerr' = cerr /\ cerr # Nil
                /\ Len(streamCh') <= Len(streamCh))
       /\ (spc \notin {"errCh", "done"}) => (serr = Nil /\ cerr = Nil)]_vars

C21_Witness ==
    /\ spc = "done" /\ cerr \in CtxErrors
    /\ Len(recvd) >= 1 /\ streamCh # <<>>

\* the condition that ends a stream holds: its context is cancelled, or the
\* offset it is at is below startOffset or purged
Ending == spc # "none" /\ (sctx # Nil \/ serr # Nil \/ Purged(soffset))

C23_StoppedTerminal ==
    [][/\ iter.state = "running" => iterErr(iter) = Nil
       /\ (iter.state = "running" /\ iter'.state = "stopped")
            => (/\ iter'.last = "stop" /\ iterErr(iter') # Nil
                /\ iter'.position = iter.position
                /\ iter.ctx # Nil => iterErr(iter') = iter.ctx)
       /\ iter.state = "stopped"
            => (/\ iter'.state = "stopped"
                /\ iterErr(iter') = iterErr(iter) /\ iterErr(iter) # Nil
                /\ iter'.position = iter.position
                /\ iter'.last \in {"stop", "stopped"}
                /\ iter'.last = "stop" => iter'.last = iter.last)
       /\ iter.state = "stopped" => iterNext(L, iter).last = "stopped"
       /\ iter.last \in {"stop", "stopped"} => iter.state = "stopped"]_vars

\* an iterator that returned records was stopped by the cancellation of its
\* scope, was called again, and a record it has not returned is in the log
C23_Witness ==
    /\ iter.state = "stopped" /\ iter.last = "stopped"
    /\ iterErr(iter) = Canceled
    /\ iter.position > conf.startOffset
    /\ Log_read(L, iter.position, Live).err = Nil

\* what l.Read(ctx, key, o) of the sharded Log returns with a live context
ShardedReadOf(key, o) == sharded_Read(slog, key, o, Live)

\* C24: every Write(k, d) of the sharded Log that returned an offset o reads
\* back: Read(k, o) returns the record of offset o holding d, unless o is
\* purged from the shard of k.
C24_ShardedRoundTrip ==
    \A i \in 1..Len(shist.writes) :
        LET w == shist.writes[i]
            r == ShardedReadOf(w.key, w.offset)
        IN r.err # ErrOutOfRange =>
              /\ r.err = Nil
              /\ r.rec.offset = w.offset
              /\ r.rec.data = w.data

\* the index in slog.shards of the shard a key is routed to, 0 when the
\* sharder fails
ShardIn(sl, key) ==
    IF key.nil THEN 0
    ELSE LET sh == Sharder_Shard(sl.sharder, key.bytes, sl.n)
         IN IF sh.err # Nil THEN 0 ELSE sh.shard + 1
ShardOf(key) == ShardIn(slog, key)
\* the keys and the offsets of the successful Writes to the sharded Log
ShardedKeys == [i \in 1..Len(shist.writes) |-> shist.writes[i].key.bytes]
ShardedOffsets == [i \in 1..Len(shist.writes) |-> shist.writes[i].offset]

\* C25: a successful Write under key k gets the next offset of the shard of k
\* and changes that shard only: every other shard, and so what Read returns
\* for a key routed to another shard, stays as it was; the offsets of each
\* shard start at startOffset (with the KeySharder of a, b, c and 3 shards,
\* Write(a), Write(b), Write(a) get startOffset, startOffset and
\* startOffset + 1, and Read(c, startOffset) is ErrFutureOffset).
C25_ShardsIndependent ==
    [][slog' # slog =>
       /\ Len(shist'.writes) > Len(shist.writes) =>
            LET w == shist'.writes[Len(shist'.writes)]
                k == ShardOf(w.key)
            IN /\ k \in 1..slog.n
               /\ w.offset = slog.shards[k].offset
               /\ slog'.shards[k].offset = w.offset + 1
               /\ \A i \in 1..slog.n :
                     i # k => slog'.shards[i] = slog.shards[i]
               /\ \A j \in ShardKeys : ShardOf(j) # k =>
                     \A o \in ShardOffsets :
                         sharded_Read(slog', j, o, Live) =
                             sharded_Read(slog, j, o, Live)
       /\ \A i \in 1..slog'.n :
             /\ slog'.shards[i].offset >= conf.startOffset
             /\ (\A n \in 1..Len(shist'.writes) :
                    ShardIn(slog', shist'.writes[n].key) # i)
                   => /\ slog'.shards[i].offset = conf.startOffset
                      /\ \A j \in ShardKeys : ShardIn(slog', j) = i =>
                            sharded_Read(slog', j, conf.startOffset, Live).err
                                = ErrFutureOffset
       /\ (/\ slog'.n = 3
           /\ slog'.sharder = KeySharder(<<<<97>>, <<98>>, <<99>>>>)
           /\ Len(shist'.writes) = 3
           /\ \A n \in 1..3 : shist'.writes[n].key.bytes
                                  = <<<<97>>, <<98>>, <<97>>>>[n])
             => /\ \A n \in 1..3 : shist'.writes[n].offset
                      = <<conf.startOffset, conf.startOffset,
                          conf.startOffset + 1>>[n]
                /\ sharded_Read(slog', Key(<<99>>), conf.startOffset,
                                Live).err = ErrFutureOffset]_vars

\* the KeySharder of a, b, c and 3 shards after Write(a), Write(b), Write(a)
C25_Witness ==
    /\ slog.n = 3 /\ slog.sharder = KeySharder(<<<<97>>, <<98>>, <<99>>>>)
    /\ ShardedKeys = <<<<97>>, <<98>>, <<97>>>>
    /\ ShardedOffsets = <<conf.startOffset, conf.startOffset,
                          conf.startOffset + 1>>
    /\ ShardedReadOf(Key(<<99>>), conf.startOffset).err = ErrFutureOffset

\* int32 values of hashes at the ends of the range and around zero, next to
\* the hashes of the keys, and shard counts up to the largest int32
HashValues ==
    {-2147483647 - 1, -2147483647, -1, 0, 1, 2147483647}
        \cup {int32(defaultSharder_hash(k.bytes)) : k \in ShardKeys}
ShardCounts == {2, 3, 1000, 2147483647}

\* the hash sharder returns an index in [0, N) for hashes of either sign
HashInRange ==
    \A h \in HashValues, n \in ShardCounts :
        defaultSharder_index(h, n) \in 0..(n - 1)

\* C26: whenever the sharder of a sharded Log with N shards returns without
\* error, what it returns is an index in [0, N): the hash sharder for hashes
\* of either sign, the KeySharder for every list of keys it was made with.
C26_ShardInRange ==
    /\ HashInRange
    /\ slog # NoSharded =>
          \A key \in ShardKeys \ {NilKey} :
              LET sh == Sharder_Shard(slog.sharder, key.bytes, slog.n)
              IN sh.err = Nil => sh.shard \in 0..(slog.n - 1)

\* what Write and Read of the sharded Log return when they fail with err
\* before they reach a shard
WriteFails(key, data, ctx, err, wrap) ==
    sharded_Write(slog, key, data, ctx, now) =
        [log |-> slog, offset |-> -1, err |-> err, wrap |-> wrap,
         panic |-> FALSE]
ReadFails(key, off, ctx, err, wrap) ==
    sharded_Read(slog, key, off, ctx) =
        [rec |-> EmptyRecord, err |-> err, wrap |-> wrap, panic |-> FALSE]

\* C27: Write and Read of the sharded Log return -1 and the empty record, with
\* the error named, and leave every shard as it is: "invalid key" for a nil
\* key; "number of keys greater than available shards" for every key that is
\* not nil when the KeySharder holds more keys than there are shards; and
\* "shard not found" for a key the KeySharder does not hold.
C27_ShardedErrors ==
    slog # NoSharded =>
        \A data \in ShardPayloads, ctx \in ShardCtxs, off \in ShardOffsets :
            /\ WriteFails(NilKey, data, ctx, errInvalidKey, "")
            /\ ReadFails(NilKey, off, ctx, errInvalidKey, "")
            /\ slog.sharder.kind = "key" =>
                  \A key \in ShardKeys \ {NilKey} :
                      IF Cardinality(DOMAIN slog.sharder.shards) > slog.n
                      THEN /\ WriteFails(key, data, ctx, errKeys, "get shard")
                           /\ ReadFails(key, off, ctx, errKeys, "get shard")
                      ELSE key.bytes \notin DOMAIN slog.sharder.shards =>
                           /\ WriteFails(key, data, ctx, errShardNotFound,
                                         "get shard")
                           /\ ReadFails(key, off, ctx, errShardNotFound,
                                        "get shard")

\* a KeySharder with three keys on two shards: a Write has failed for the
\* number of keys
C27_Witness ==
    /\ slog.n = 2 /\ slog.sharder.kind = "key"
    /\ Cardinality(DOMAIN slog.sharder.shards) = 3
    /\ shist.fail = errKeys

\* C28: the active segment exists; a history segment that exists is sealed,
\* holds exactly segmentSize records and ends where the active segment
\* starts.
C28_SegmentShape ==
    /\ Len(active) = 1
    /\ Len(history) <= 1
    /\ history # <<>> =>
          /\ history[1].sealed
          /\ Len(history[1].data) = conf.segmentSize
          /\ history[1].start + conf.segmentSize = active[1].start

\* the log has rotated twice and has written to its third segment
C28_Witness ==
    /\ rotations >= 2 /\ history # <<>>
    /\ active[1].data # <<>>
    /\ history[1].start > conf.startOffset

\* C29: between the calls the next offset is the one after the last record
\* of the active segment when that segment holds records; otherwise it is the
\* start of the active segment and the start offset of the log, and there is
\* no history segment.
C29_NextOffset ==
    IF active[1].data # <<>>
    THEN offset = currentOffset(active[1]) + 1
    ELSE /\ offset = active[1].start
         /\ offset = conf.startOffset
         /\ history = <<>>

\* C30: no call has panicked and none can: the active segment is not sealed,
\* an append to it reports nothing but "full" or the error of the context,
\* and Write, whatever its data and its context, reaches neither the panic
\* after extend nor the one after the retried append.
C30_NoAbort ==
    /\ ~panicked
    /\ ~active[1].sealed
    /\ \A ctx \in Contexts(3) :
          /\ \A k \in 1..3 :
                segment_write(active[1], EmptyRecord, CtxErr(ctx, k)).err
                    \in {Nil, errFull} \cup CtxErrors
          /\ \A data \in Payloads :
                ~Log_write(L, data, ctx, now).panic

\* the active segment is full after two rotations, so that the next Write
\* finds it full and extends the log, and a Write has failed
C30_Witness ==
    /\ rotations >= 2 /\ failed /\ ~panicked
    /\ Len(active[1].data) = active[1].cap
    /\ history # <<>> /\ history[1].start > conf.startOffset

\* C31: a Write that extends the log, because the active segment is full,
\* extends it once, appends its record to the new active segment and returns
\* the offset of that record.
C31_RetrySucceeds ==
    \A data \in Payloads, ctx \in Contexts(3) :
        LET res == Log_write(L, data, ctx, now)
        IN /\ res.extends <= 1
           /\ res.extends = 1 =>
                 /\ res.err = Nil
                 /\ res.offset = offset
                 /\ res.log.active[1].start = offset
                 /\ Len(res.log.active[1].data) = 1
                 /\ res.log.active[1].data[1].offset = offset

\* C32: a Write that returns an error, whatever its data and wherever its
\* context trips, returns -1 and leaves the Log as it was: the segments, the
\* next offset, the Range and what Read returns for every offset.
C32_FailedWriteFrame ==
    \A data \in Payloads, ctx \in Contexts(3) :
        LET res == Log_write(L, data, ctx, now)
        IN res.err # Nil =>
              /\ res.offset = -1
              /\ res.log.history = history
              /\ res.log.active = active
              /\ res.log.offset = offset
              /\ offsetRange(res.log) = offsetRange(L)
              /\ \A o \in ReadOffsets : ReadOf(res.log, o) = ReadOf(L, o)

\* C33: once the log holds a record, no step lowers the earliest or the
\* latest offset that Range reports.
C33_RangeMonotone ==
    [][logvars' # logvars =>
          (writes # <<>> =>
              /\ offsetRange(LNext).earliest >= offsetRange(L).earliest
              /\ offsetRange(LNext).latest >= offsetRange(L).latest)]_vars

\* C34: a call of ReadBatch works on the Log as it was when the call took
\* the shared lock: no Write, and so no rotation, takes effect before the
\* call has unlocked; the i records read so far are the ones that Log held at
\* the offsets start .. start + i - 1, in this order; and the number returned
\* counts them.
C34_BatchSnapshot ==
    rb.pc # "idle" =>
        /\ rb.snap = <<L>>
        /\ rb.off = rb.start + rb.i
        /\ \A k \in 1..rb.i :
              /\ ReadOf(rb.snap[1], rb.start + k - 1).err = Nil
              /\ rb.batch[k] = ReadOf(rb.snap[1], rb.start + k - 1).rec
              /\ rb.batch[k].offset = rb.start + k - 1
        /\ (rb.pc = "unlock" /\ rb.err # ErrOutOfRange) => rb.n = rb.i

\* a call has read three records, from the history and the active segment
\* of a log that has purged a segment, and has not unlocked yet
C34_Witness ==
    /\ rb.pc = "unlock" /\ rb.n = 3 /\ rb.err = Nil
    /\ rotations >= 2
    /\ rb.start < active[1].start
    /\ ReadOf(L, conf.startOffset).err = ErrOutOfRange

\* C35: a ReadBatch that returns the error of its context returns with it the
\* number i of records it has read, one for every two calls of ctx.Err() that
\* passed; batch[0..i-1] hold the records of offsets o .. o+i-1 as Read
\* returns them and the rest of the batch is as the caller passed it.  And a
\* context that trips while records are left to read does end the call so.
C35_PartialBatch ==
    \A o \in ReadOffsets, batch \in Batches, ctx \in Contexts(2 * MaxBatch) :
        LET res == Log_ReadBatch(L, o, batch, ctx)
            i == ctx.live \div 2
        IN /\ res.err \in CtxErrors =>
                /\ res.err = ctx.err
                /\ res.n = i /\ i < Len(batch)
                /\ \A k \in 1..Len(batch) :
                      IF k <= i
                      THEN /\ ReadOf(L, o + k - 1).err = Nil
                           /\ res.batch[k] = ReadOf(L, o + k - 1).rec
                           /\ res.batch[k].offset = o + k - 1
                      ELSE res.batch[k] = batch[k]
           /\ (/\ i < Len(batch)
               /\ \A k \in 1..(i + 1) : ReadOf(L, o + k - 1).err = Nil)
                 => res.err = ctx.err

\* a log that has rotated holds three records in a row, so that a batch of
\* three is cut short by a context that trips after two of them
C35_Witness ==
    /\ rotations >= 1 /\ history # <<>>
    /\ \E o \in ReadOffsets :
          LET res == Log_ReadBatch(L, o, [k \in 1..3 |-> StaleRecord],
                                   [live |-> 4, err |-> DeadlineExceeded])
          IN /\ res.n = 2 /\ res.err = DeadlineExceeded
             /\ res.batch[2].offset = o + 1
             /\ o < active[1].start /\ o + 1 >= active[1].start

\* C36: ReadBatch with an empty batch returns (0, nil) at every offset, be it
\* below startOffset, purged, retained or not yet written, and calls neither
\* l.read nor ctx.Err(): a context that has tripped changes nothing.
C36_EmptyBatch ==
    \A o \in ReadOffsets, ctx \in Contexts(2) :
        Log_ReadBatch(L, o, <<>>, ctx) = [n |-> 0, batch |-> <<>>, err |-> Nil]

\* the log holds offsets below startOffset, purged, retained and not written
C36_Witness ==
    /\ conf.startOffset >= 1
    /\ \E o \in ReadOffsets : o >= conf.startOffset
                              /\ ReadOf(L, o).err = ErrOutOfRange
    /\ \E o \in ReadOffsets : ReadOf(L, o).err = Nil
    /\ \E o \in ReadOffsets : ReadOf(L, o).err = ErrFutureOffset

\* ---------------------------------------------------------------- C37
\* the offsets stream i has passed on so far: the ones its consumer has
\* received, then the ones buffered in its streamCh
StreamsSeq(i) ==
    streams[i].recvd \o
        [k \in 1..Len(streams[i].ch) |-> streams[i].ch[k].rec.offset]

\* stream i has been started and nothing has ended it
StreamsRunning(i) ==
    /\ streams[i].pc # "none"
    /\ streams[i].ctx = Nil
    /\ streams[i].err = Nil

\* C37: streams on one Log are independent.  Next to a writer, every stream
\* passes on the consecutive offsets start, start + 1, ... from its own start
\* offset and its variable offset is the one after them; a step that changes
\* one stream (a send, a receive, its cancellation, its end) leaves the other
\* stream as it was; and an offset one stream has delivered is not used up:
\* another stream whose sendOne reads at that offset sends the record too,
\* unless its context is cancelled or the record has been purged.
C37_StreamsIndependent ==
    /\ [](\A i \in StreamIds :
             /\ \A k \in 1..Len(StreamsSeq(i)) :
                   StreamsSeq(i)[k] = streams[i].start + k - 1
             /\ streams[i].offset = streams[i].start + Len(StreamsSeq(i)))
    /\ [][\A i, j \in StreamIds :
             (i # j /\ streams'[i] # streams[i]) => streams'[j] = streams[j]]_vars
    /\ [][\A i, j \in StreamIds :
             (/\ i # j
              /\ streams[j].pc = "sendOne"
              /\ streams'[j].pc # "sendOne"
              /\ streams[j].ctx = Nil
              /\ \E k \in 1..Len(streams[i].recvd) :
                    streams[i].recvd[k] = streams[j].offset)
             => \/ /\ Len(streams'[j].ch) = Len(streams[j].ch) + 1
                   /\ streams'[j].ch[Len(streams'[j].ch)].rec.offset =
                         streams[j].offset
                \/ streams'[j].err = ErrOutOfRange]_vars

\* two streams started at different offsets have both delivered the same
\* offset, the first has ended and the second has delivered a later one
C37_Witness ==
    /\ streams[1].start # streams[2].start
    /\ streams[1].pc = "done"
    /\ Len(streams[1].recvd) >= 2
    /\ Len(streams[2].recvd) >= 2
    /\ \E k \in 1..Len(streams[1].recvd), m \in 1..Len(streams[2].recvd) :
          /\ streams[1].recvd[k] = streams[2].recvd[m]
          /\ m < Len(streams[2].recvd)

\* ---------------------------------------------------------------- C38
\* C38: every StreamRecord a stream sends carries the Earliest and Latest of
\* the Log's Range at the instant its record is read, and the record's offset
\* lies between them: Earliest <= Record.Metadata.Offset <= Latest, however
\* the stream's steps interleave with the writer's.
C38_RangeBracketsRecord ==
    /\ [](\A i \in StreamIds : \A k \in 1..Len(streams[i].ch) :
             /\ streams[i].ch[k].earliest <= streams[i].ch[k].rec.offset
             /\ streams[i].ch[k].rec.offset <= streams[i].ch[k].latest)
    /\ [][\A i \in StreamIds :
             Len(streams'[i].ch) = Len(streams[i].ch) + 1
             => /\ streams'[i].ch[Len(streams'[i].ch)].earliest =
                      offsetRange(L).earliest
                /\ streams'[i].ch[Len(streams'[i].ch)].latest =
                      offsetRange(L).latest]_vars

\* ---------------------------------------------------------------- C39
\* C39: streams never block a writer for ever.  While the streams poll the
\* Log, holding the shared lock through the read, the back-off and the send,
\* every Write waiting in l.mu.Lock() gets the exclusive lock and returns.
C39_WriterProgress ==
    \A p \in Procs : pc[p] = "lock" ~> pc[p] = "idle"

\* a Write waits for the lock while one stream holds the shared lock in a
\* poll of an offset not yet written and the other waits to poll
C39_Witness ==
    /\ \E p \in Procs : pc[p] = "lock"
    /\ \E i, j \in StreamIds :
          /\ i # j
          /\ streams[i].pc = "sendOne"
          /\ -i \in mu.r
          /\ streams[i].offset >= offset
          /\ streams[j].pc = "RLock"

\* ---------------------------------------------------------------- C40
\* C40: a successful Read never returns an empty record.  For every offset
\* and every context with which Read returns no error, the record returned is
\* the record of that offset and its Data are the bytes written there,
\* whatever instant the clock showed at the Write, the zero time included.
C40_NeverEmpty ==
    \A o \in ReadOffsets, ctx \in Contexts(2) :
        Log_read(L, o, ctx).err = Nil =>
            /\ Log_read(L, o, ctx).rec # EmptyRecord
            /\ Log_read(L, o, ctx).rec.offset = o
            /\ Log_read(L, o, ctx).rec.data = DataOf(o)
====
